---- MODULE Spec2Model ----
(***************************************************************************)
(* Model of the import engine of kontent-data-manager                      *)
(* (src/lib/import/import.service.ts, src/lib/core/id-translate-helper.ts, *)
(* src/lib/core/global-helper.ts).                                         *)
(*                                                                         *)
(* importAsync is sequential async code: every await of a client call is   *)
(* one action (the call, its outcome, and all synchronous code up to the   *)
(* next await).  The target project (assets, content items, language       *)
(* variants) is the state the client calls read and write.                 *)
(*                                                                         *)
(* Identity: a step id identifies one step of one workflow; step codenames *)
(* may repeat across workflows.                                            *)
(***************************************************************************)
EXTENDS Integers, Sequences, FiniteSets, TLC

VARIABLES
    skipFailedItems, \* config.skipFailedItems
    canImport,       \* config.canImport: "undefined" or the name of a predicate pair
    tWorkflows,      \* target: what listWorkflows answers
    tAssets,         \* target: external ids of the assets that exist
    tItems,          \* target: codename -> [name, collection] of the items that exist
    tVariants,       \* target: <<codename, language>> -> [wf, step] of the variants that exist
    source,          \* sourceData.importData: [assets, items]
    given,           \* sourceData.importData as the caller handed it to this run (history)
    table,           \* id translation helper: the items argument (a ledger)
    payload,         \* id translation helper: the text or data argument
    rewritten,       \* id translation helper: the text returned, or data after the call
    applied,         \* id translation helper: "off", or what was applied and how often
    pc,              \* the await the run is suspended at
    idx,             \* loop index (1-based) of the current for..of
    importedItems,   \* the ledger of importAsync
    assetItems,      \* importedItems local to importAssetsAsync
    preparedItems,   \* preparedItems of importContentItemsAsync
    workflows,       \* workflows fetched by getWorkflowsAsync
    collections,     \* collections fetched by getCollectionsAsync
    existingAsset,   \* existingAsset of the current asset iteration (id or None)
    uploadedFile,    \* uploadedBinaryFile.data.id of the current asset iteration
    languageVariantOfContentItem, \* prepareLanguageVariantForImportAsync: step id of the variant viewed
    calls,           \* client calls issued in this run, in order (history)
    log,             \* console lines written by processItem, in order
    errlog,          \* per-item errors written by the two catch blocks, in order
    outcome,         \* how importAsync ended: "running", "returned", "thrown"
    thrown,          \* the value importAsync threw (None when it did not)
    returned,        \* the value importAsync returned (<<>> when it did not)
    run,             \* number of the current importAsync call
    failures,        \* client calls that failed so far for reasons of their own
    prev             \* how the previous run ended: [clean, variants]

vars == <<skipFailedItems, canImport, tWorkflows, tAssets, tItems, tVariants, source,
          pc, idx, importedItems, assetItems, preparedItems, workflows, collections,
          existingAsset, uploadedFile, languageVariantOfContentItem, calls, log, errlog,
          outcome, thrown, returned, run, failures, prev, given,
          table, payload, rewritten, applied>>

None == "none"

(***************************************************************************)
(* Bounds of the model.                                                    *)
(***************************************************************************)
MaxAssets == 1
MaxItems == 2
MaxRuns == 2
MaxFailures == 1
MaxMarkers == 1
MaxTable == 2

(***************************************************************************)
(* Generic helpers.                                                        *)
(***************************************************************************)
Range(s) == {s[i] : i \in DOMAIN s}

SeqsUpTo(S, n) == UNION {[1..k -> S] : k \in 0..n}

RECURSIVE SelectSeqBy(_, _)
\* Array.prototype.filter with the kept positions given as a set of indices
SelectSeqBy(s, keep) ==
    IF s = <<>> THEN <<>>
    ELSE LET n == Len(s)
             front == SelectSeqBy(SubSeq(s, 1, n - 1), keep)
         IN IF n \in keep THEN Append(front, s[n]) ELSE front

\* Array.prototype.find: the first of the indexes whose element satisfies the
\* predicate, 0 if there is none
FirstIndex(hits) ==
    IF hits = {} THEN 0 ELSE CHOOSE i \in hits : \A j \in hits : i <= j

(***************************************************************************)
(* Workflows of the target project (WorkflowModels.Workflow).              *)
(***************************************************************************)
Step(i, c) == [id |-> i, codename |-> c]

defaultWorkflowCodename == "default"

WfDefault ==
    [codename |-> "default",
     steps |-> <<Step("d1", "draft"), Step("d2", "arch_b")>>,
     publishedStep |-> Step("dp", "published"),
     archivedStep |-> Step("da", "archived")]

WfB ==
    [codename |-> "wfb",
     steps |-> <<Step("b1", "draft_b")>>,
     publishedStep |-> Step("bp", "published"),
     archivedStep |-> Step("ba", "arch_b")]

WorkflowLists == {<<WfDefault>>, <<WfDefault, WfB>>, <<WfB, WfDefault>>, <<WfB>>}

\* the three tests of the loop body of getWorkflowForGivenStepByCodename
WorkflowHasStepCodename(w, c) ==
    \/ w.archivedStep.codename = c
    \/ w.publishedStep.codename = c
    \/ \E i \in DOMAIN w.steps : w.steps[i].codename = c

\* the three tests of the loop body of getWorkflowForGivenStepById
WorkflowHasStepId(w, id) ==
    \/ w.archivedStep.id = id
    \/ w.publishedStep.id = id
    \/ \E i \in DOMAIN w.steps : w.steps[i].id = id

IsDefaultWorkflow(w) == w.codename = defaultWorkflowCodename

\* getWorkflowForGivenStepByCodename that prefers the default workflow to a match
Wrong_getWorkflowForGivenStepByCodename(c, wfs) ==
    LET dflt == FirstIndex({i \in DOMAIN wfs : IsDefaultWorkflow(wfs[i])})
    IN IF dflt # 0 THEN dflt ELSE FirstIndex({i \in DOMAIN wfs : WorkflowHasStepCodename(wfs[i], c)})

\* index in wfs of the workflow returned, 0 when 'Missing default workflow' is thrown
getWorkflowForGivenStepByCodename(c, wfs) ==
    LET hit == FirstIndex({i \in DOMAIN wfs : WorkflowHasStepCodename(wfs[i], c)})
    IN IF hit # 0 THEN hit ELSE FirstIndex({i \in DOMAIN wfs : IsDefaultWorkflow(wfs[i])})

\* getWorkflowForGivenStepById that takes the first workflow without looking at its steps
Wrong_getWorkflowForGivenStepById(id, wfs) == IF wfs = <<>> THEN 0 ELSE 1

\* index in wfs of the workflow returned, 0 when 'Missing default workflow' is thrown
getWorkflowForGivenStepById(id, wfs) ==
    LET hit == FirstIndex({i \in DOMAIN wfs : WorkflowHasStepId(wfs[i], id)})
    IN IF hit # 0 THEN hit ELSE FirstIndex({i \in DOMAIN wfs : IsDefaultWorkflow(wfs[i])})

\* isLanguageVariantPublished that never finds the variant published
Wrong_isLanguageVariantPublished(stepId, wfs) == FALSE

isLanguageVariantPublished(stepId, wfs) ==
    \E i \in DOMAIN wfs : wfs[i].publishedStep.id = stepId

\* isLanguageVariantArchived that never finds the variant archived
Wrong_isLanguageVariantArchived(stepId, wfs) == FALSE

isLanguageVariantArchived(stepId, wfs) ==
    \E i \in DOMAIN wfs : wfs[i].archivedStep.id = stepId

doesWorkflowStepCodenameRepresentPublishedStep(c, wfs) ==
    \E i \in DOMAIN wfs : wfs[i].publishedStep.codename = c

\* doesWorkflowStepCodenameRepresentArchivedStep that looks at the first workflow only
Wrong_doesWorkflowStepCodenameRepresentArchivedStep(c, wfs) ==
    wfs # <<>> /\ wfs[1].archivedStep.codename = c

doesWorkflowStepCodenameRepresentArchivedStep(c, wfs) ==
    \E i \in DOMAIN wfs : wfs[i].archivedStep.codename = c

(***************************************************************************)
(* The ledger (IImportItemResult[]) and the id translation helper.         *)
(* An entry keeps importId, originalId and originalCodename; action and    *)
(* itemType are the two arguments of processItem that produced the entry   *)
(* (the code only logs them).  The payloads imported/original are left out.*)
(***************************************************************************)
Entry(action, itemType, importId, originalId, originalCodename) ==
    [action |-> action, itemType |-> itemType, importId |-> importId,
     originalId |-> originalId, originalCodename |-> originalCodename]

\* processItem that records nothing
Wrong_processItem(items, action, itemType, importId, originalId, originalCodename) == items

\* importedItems.push(...) of processItem
processItem(items, action, itemType, importId, originalId, originalCodename) ==
    Append(items, Entry(action, itemType, importId, originalId, originalCodename))

\* the console.log of processItem: nothing for 'fetch'
processItemLog(lines, action, itemType) ==
    IF action = "fetch" THEN lines ELSE Append(lines, <<itemType, action>>)

\* a lookup that takes the entry registered last
Wrong_tryFindNewId(id, items) ==
    LET hits == {k \in DOMAIN items : items[k].originalId = id}
    IN IF hits = {} THEN None ELSE items[CHOOSE i \in hits : \A j \in hits : j <= i].importId

\* items.find((m) => m.originalId === id)?.importId
tryFindNewId(id, items) ==
    LET i == FirstIndex({k \in DOMAIN items : items[k].originalId = id})
    IN IF i = 0 THEN None ELSE items[i].importId

\* items.find((m) => m.originalCodename === codename)?.importId
tryFindNewIdForCodename(codename, items) ==
    LET i == FirstIndex({k \in DOMAIN items : items[k].originalCodename = codename})
    IN IF i = 0 THEN None ELSE items[i].importId

\* a rich text is the sequence of its reference markers attr="val"
Marker(a, v) == [attr |-> a, val |-> v]

Placeholder == "ahoj"

\* a value the callbacks treat as falsy: undefined or the empty string
Falsy(v) == v = None \/ v = ""

\* String.replace with the callback of replaceIdWithRegex, for the markers named attr
replaceIdWithRegex(attr, text, items) ==
    [i \in DOMAIN text |->
        IF text[i].attr = attr /\ ~Falsy(text[i].val) /\ ~Falsy(tryFindNewId(text[i].val, items))
        THEN Marker(attr, tryFindNewId(text[i].val, items))
        ELSE text[i]]

\* replaceCodenameWithRegex that writes the new id under the attribute it matched
Wrong_replaceCodenameKeepsAttr(text, items) ==
    [i \in DOMAIN text |->
        IF text[i].attr = "data-codename" /\ ~Falsy(text[i].val)
        THEN IF ~Falsy(tryFindNewIdForCodename(text[i].val, items))
             THEN Marker("data-codename", tryFindNewIdForCodename(text[i].val, items))
             ELSE Marker("data-codename", Placeholder)
        ELSE text[i]]

\* replaceCodenameWithRegex that leaves an unresolved codename as it is
Wrong_replaceCodenameWithRegex(text, items) ==
    [i \in DOMAIN text |->
        IF text[i].attr = "data-codename" /\ ~Falsy(tryFindNewIdForCodename(text[i].val, items))
        THEN Marker("data-id", tryFindNewIdForCodename(text[i].val, items))
        ELSE text[i]]

\* String.replace with the callback of replaceCodenameWithRegex
replaceCodenameWithRegex(text, items) ==
    [i \in DOMAIN text |->
        IF text[i].attr = "data-codename" /\ ~Falsy(text[i].val)
        THEN IF ~Falsy(tryFindNewIdForCodename(text[i].val, items))
             THEN Marker("data-id", tryFindNewIdForCodename(text[i].val, items))
             ELSE Marker("data-id", Placeholder)
        ELSE text[i]]

replaceIdsInRichText(text, items) ==
    LET t1 == replaceCodenameWithRegex(text, items)
        t2 == replaceIdWithRegex("data-item-id", t1, items)
        t3 == replaceIdWithRegex("data-asset-id", t2, items)
        t4 == replaceIdWithRegex("data-image-id", t3, items)
    IN replaceIdWithRegex("data-id", t4, items)

\* An object of the data tree: the value of its key 'id' and of a key that is
\* 'id' in another case ('Id'), a string value delimited by < and >, an array
\* of such strings, and its object values (or the objects of an array value);
\* None stands for an id key the object lacks, the empty text for a string
\* without markers or no string at all.
Node(upperId, lowerId, value, texts, kids) ==
    [Id |-> upperId, id |-> lowerId, value |-> value, texts |-> texts, kids |-> kids]

\* replaceIdReferencesWithNewId called with a string, as it is for a string
\* element of an array: Object.keys of a string are its indices, every value
\* is one character, which cannot both start with < and end with >, and is
\* neither an id key nor an object; nothing is assigned
replaceInStringElement(text, items) == text

\* data.id = newId when tryFindNewId(data.id) finds one
newIdOrSame(id, items) ==
    IF Falsy(tryFindNewId(id, items)) THEN id ELSE tryFindNewId(id, items)

RECURSIVE replaceIdReferencesWithNewId(_, _)
\* replaceIdReferencesWithNewId: the loop over Object.keys(data) reads data.id once
\* for every key whose lower case is 'id'
replaceIdReferencesWithNewId(data, items) ==
    LET once == IF data.Id # None THEN newIdOrSame(data.id, items) ELSE data.id
        twice == IF data.id # None THEN newIdOrSame(once, items) ELSE once
    IN Node(data.Id,
            twice,
            replaceIdsInRichText(data.value, items),
            [k \in DOMAIN data.texts |-> replaceInStringElement(data.texts[k], items)],
            [k \in DOMAIN data.kids |-> replaceIdReferencesWithNewId(data.kids[k], items)])

\* translationHelper.transformToImportValue for a rich text element: the value goes
\* through the rich text rewriter with the ledger accumulated so far
transformToImportValue(value, items) == replaceIdsInRichText(value, items)

(***************************************************************************)
(* The source (IImportSource.importData) and the caller's configuration.   *)
(***************************************************************************)
AssetRows ==
    {[assetId |-> "a1", filename |-> "_corporate_logo"],
     [assetId |-> "a1", filename |-> "photo"]}

ItemRow(c, n, col, lang, ws, els) ==
    [codename |-> c, name |-> n, collection |-> col, language |-> lang,
     workflow_step |-> ws, elements |-> els]

\* a component: no workflow step, used as a link target only
RowX == ItemRow("x", "X", "col1", "en", None, <<>>)
RowY == ItemRow("y", "Y", "col1", "en", "published", <<Marker("data-codename", "x")>>)
RowYcs == ItemRow("y", "Y", "col1", "cs", "arch_b", <<Marker("data-asset-id", "a1")>>)
RowW == ItemRow("w", "W", "lost", "en", "ghost", <<>>)

ItemRows == {RowX, RowY, RowYcs, RowW}

\* the asset lists of a source: one row for each file
AssetLists == {as \in SeqsUpTo(AssetRows, MaxAssets) :
                  \A i, j \in DOMAIN as : i # j => as[i] # as[j]}

\* the item lists of a source: one row for each (content item, language) pairing
ItemLists == {its \in SeqsUpTo(ItemRows, MaxItems) :
                 \A i, j \in DOMAIN its : i # j => its[i] # its[j]}

\* config.canImport: absent, or a pair of predicates (the asset predicate of
\* samples/restore-sample.ts; a content item predicate that rejects one language)
CanImportConfigs == {"undefined", "filter"}

canImportAsset(cfg, asset) == cfg = "filter" => asset.filename = "_corporate_logo"

canImportContentItem(cfg, item) == cfg = "filter" => item.language # "cs"

(***************************************************************************)
(* The target project behind the management client.                        *)
(***************************************************************************)
TargetCollections == {"col1", "col2"}

\* the id the target gives to the asset with this external id / the item with this codename
TargetId(k) ==
    CASE k = "a1" -> "id_a1"
      [] k = "x" -> "id_x"
      [] k = "y" -> "id_y"
      [] k = "w" -> "id_w"

\* the id the target gives to the binary file uploaded for an asset
FileId(k) == CASE k = "a1" -> "file_a1"

EmptyMap == [k \in {} |-> None]

TItem(n, col) == [name |-> n, collection |-> col]

TVariant(w, s) == [wf |-> w, step |-> s]

\* the workflow of the target with this codename
TargetWorkflow(wfs, codename) == wfs[CHOOSE i \in DOMAIN wfs : wfs[i].codename = codename]

\* the workflow a new language variant starts in: the default one
NewVariantWorkflow(wfs) ==
    IF \E i \in DOMAIN wfs : IsDefaultWorkflow(wfs[i])
    THEN wfs[FirstIndex({i \in DOMAIN wfs : IsDefaultWorkflow(wfs[i])})]
    ELSE wfs[1]

\* every step of a workflow, the two distinguished ones included
AllSteps(w) == Range(w.steps) \cup {w.publishedStep, w.archivedStep}

StepIdByCodename(w, c) == (CHOOSE st \in AllSteps(w) : st.codename = c).id

\* the states the target may be in when the first run starts
TargetStates(wfs) ==
    {[assets |-> {}, items |-> EmptyMap, variants |-> EmptyMap],
     [assets |-> {"a1"},
      items |-> ("y" :> TItem("Y", "col1")),
      variants |-> (<<"y", "en">> :> TVariant(wfs[1].codename, wfs[1].publishedStep.id))],
     [assets |-> {},
      items |-> ("y" :> TItem("Yold", "col2")) @@ ("w" :> TItem("W", "col2")),
      variants |-> (<<"y", "en">> :> TVariant(wfs[Len(wfs)].codename, wfs[Len(wfs)].archivedStep.id))],
     [assets |-> {},
      items |-> ("y" :> TItem("Y", "col2")) @@ ("w" :> TItem("W", "col2")),
      variants |-> (<<"y", "cs">> :> TVariant(wfs[1].codename, wfs[1].publishedStep.id))
                   @@ (<<"w", "en">> :> TVariant(wfs[1].codename, wfs[1].publishedStep.id))]}

(***************************************************************************)
(* Client calls and errors.                                                *)
(***************************************************************************)
\* One client call of the history: the request (op, key, lang, data), the loop
\* index it was issued at, how it ended ("ok", "notFound" for a 404, "error" for
\* any other error) and what it answered.
Call(op, i, key, lang, data, st, res) ==
    [op |-> op, idx |-> i, key |-> key, lang |-> lang, data |-> data, st |-> st, res |-> res]

\* how a call ends: fail is an error of the call's own, found is false for a view of nothing
Status(fail, found) == IF fail THEN "error" ELSE IF found THEN "ok" ELSE "notFound"

\* a ContentManagementBaseKontentError whose status is not 404
KontentError == "kontent error"

IsKontentError(e) == e = KontentError

NotThrown == [classified |-> FALSE, message |-> None]

\* what handleError throws for the error it is given
handleError(e) ==
    IF IsKontentError(e)
    THEN [classified |-> TRUE, message |-> "Failed to import data with error"]
    ELSE [classified |-> FALSE, message |-> e]

(***************************************************************************)
(* Control flow of importAsync between two awaits.  A position is          *)
(* [pc, idx, err, errs]: the next await, its loop index, the error that    *)
(* left importContentItemsAsync / importAssetsAsync (None when none did),  *)
(* and the errors the per-item catch blocks logged on the way.             *)
(***************************************************************************)
At(p, i) == [pc |-> p, idx |-> i, err |-> None, errs |-> <<>>]

Finished == At("done", 0)

\* an error that ends the run as a normal return
Wrong_Abort(e) == [pc |-> "done", idx |-> 0, err |-> None, errs |-> <<>>]

Abort(e) == [pc |-> "done", idx |-> 0, err |-> e, errs |-> <<>>]

Logged(pass, row, e) == [pass |-> pass, codename |-> row.codename, language |-> row.language, error |-> e]

RECURSIVE Wrong_ContB(_, _, _, _)
\* ContB with the item of an unprepared row fetched on demand instead of the throw
Wrong_ContB(i, items, prepared, skip) ==
    IF i > Len(items) THEN Finished
    ELSE IF items[i].workflow_step = None THEN Wrong_ContB(i + 1, items, prepared, skip)
    ELSE IF \E k \in DOMAIN prepared : prepared[k].codename = items[i].codename
         THEN At("viewLanguageVariant", i)
         ELSE At("viewContentItem", i)

RECURSIVE ContB(_, _, _, _)
\* the second for..of of importContentItemsAsync from row i up to its next await
ContB(i, items, prepared, skip) ==
    IF i > Len(items) THEN Finished
    ELSE IF items[i].workflow_step = None THEN ContB(i + 1, items, prepared, skip)
    ELSE IF \E k \in DOMAIN prepared : prepared[k].codename = items[i].codename
         THEN At("viewLanguageVariant", i)
         ELSE IF skip
              THEN LET rest == ContB(i + 1, items, prepared, skip)
                   IN [rest EXCEPT !.errs = <<Logged("B", items[i], "Invalid content item")>> \o @]
              ELSE Abort("Invalid content item")

\* ContA without the test of workflow_step
Wrong_ContA(i, items, prepared, skip) ==
    IF i > Len(items) THEN ContB(1, items, prepared, skip) ELSE At("viewContentItem", i)

RECURSIVE ContA(_, _, _, _)
\* the first for..of of importContentItemsAsync from row i up to its next await
ContA(i, items, prepared, skip) ==
    IF i > Len(items) THEN ContB(1, items, prepared, skip)
    ELSE IF items[i].workflow_step = None THEN ContA(i + 1, items, prepared, skip)
    ELSE At("viewContentItem", i)

\* a catch block that logs and goes on whatever the configuration says
Wrong_CatchItemSwallow(pass, row, e, next, skip) ==
    [next EXCEPT !.errs = <<Logged(pass, row, e)>> \o @]

\* a catch block that rethrows whatever the configuration says
Wrong_CatchItem(pass, row, e, next, skip) == Abort(e)

\* a catch block of importContentItemsAsync: log and go on, or rethrow
CatchItem(pass, row, e, next, skip) ==
    IF skip THEN [next EXCEPT !.errs = <<Logged(pass, row, e)>> \o @] ELSE Abort(e)

\* importAsync after the asset stage: the content items, if any
AfterAssets(items) == IF Len(items) > 0 THEN At("listWorkflows", 0) ELSE Finished

\* importAsync after removeSkippedItemsFromImport
AfterFilter(src) == IF Len(src.assets) > 0 THEN At("viewAsset1", 1) ELSE AfterAssets(src.items)

\* Moves the run to position r; the run ends when r.pc = "done": importAsync
\* returns the ledger, or handleImportError throws what handleError makes of r.err.
Land(r, ledger) ==
    /\ pc' = r.pc
    /\ idx' = r.idx
    /\ errlog' = errlog \o r.errs
    /\ outcome' = IF r.pc # "done" THEN "running"
                  ELSE IF r.err = None THEN "returned" ELSE "thrown"
    /\ thrown' = IF r.err = None THEN NotThrown ELSE handleError(r.err)
    /\ returned' = IF r.pc = "done" /\ r.err = None THEN ledger ELSE <<>>

\* removeSkippedItemsFromImport that removes nothing
Wrong_removeSkippedItemsFromImport(cfg, src) == src

\* removeSkippedItemsFromImport: each for..of walks the array it started on,
\* and every rejected row filters out all rows with its assetId / codename
removeSkippedItemsFromImport(cfg, src) ==
    LET badAssets == {src.assets[i].assetId : i \in {j \in DOMAIN src.assets : ~canImportAsset(cfg, src.assets[j])}}
        badItems == {src.items[i].codename : i \in {j \in DOMAIN src.items : ~canImportContentItem(cfg, src.items[j])}}
    IN [assets |-> SelectSeqBy(src.assets, {i \in DOMAIN src.assets : src.assets[i].assetId \notin badAssets}),
        items |-> SelectSeqBy(src.items, {i \in DOMAIN src.items : src.items[i].codename \notin badItems})]

\* shouldUpdateContentItem; "throws" stands for Error(`Invalid collection`)
shouldUpdateContentItem(row, item, colls) ==
    IF row.collection \notin colls THEN "throws"
    ELSE LET collection == CHOOSE c \in colls : c = row.collection
         IN IF row.name # item.name \/ row.collection # collection THEN "update" ELSE "skip"

Prepared(c, n) == [codename |-> c, name |-> n, id |-> TargetId(c)]

targetVars == <<tAssets, tItems, tVariants>>
helperVars == <<table, payload, rewritten, applied>>
configVars == <<skipFailedItems, canImport, tWorkflows, run, prev, given, helperVars>>
assetLocals == <<assetItems, existingAsset, uploadedFile>>
itemLocals == <<preparedItems, workflows, collections>>
variantLocals == <<languageVariantOfContentItem>>

\* a client call may fail with a non-404 error for reasons of its own
MayFail(fail) == fail => failures < MaxFailures

Failed(fail) == failures' = IF fail THEN failures + 1 ELSE failures

(***************************************************************************)
(* importAsync up to the first stage.                                      *)
(***************************************************************************)
Init ==
    /\ skipFailedItems \in BOOLEAN
    /\ canImport \in CanImportConfigs
    /\ tWorkflows \in WorkflowLists
    /\ \E t \in TargetStates(tWorkflows) :
        /\ tAssets = t.assets
        /\ tItems = t.items
        /\ tVariants = t.variants
    /\ \E as \in AssetLists, its \in ItemLists :
        /\ source = [assets |-> as, items |-> its]
        /\ given = source
    /\ table = <<>>
    /\ payload = <<>>
    /\ rewritten = <<>>
    /\ applied = "off"
    /\ pc = "start"
    /\ idx = 0
    /\ importedItems = <<>>
    /\ assetItems = <<>>
    /\ preparedItems = <<>>
    /\ workflows = <<>>
    /\ collections = {}
    /\ existingAsset = None
    /\ uploadedFile = None
    /\ languageVariantOfContentItem = None
    /\ calls = <<>>
    /\ log = <<>>
    /\ errlog = <<>>
    /\ outcome = "running"
    /\ thrown = NotThrown
    /\ returned = <<>>
    /\ run = 1
    /\ failures = 0
    /\ prev = [clean |-> FALSE, variants |-> EmptyMap]

\* printProjectInfoToConsoleAsync, then removeSkippedItemsFromImport.  The call is
\* outside the try of importAsync: its error leaves importAsync as it is.
Start ==
    /\ pc = "start"
    /\ \E fail \in BOOLEAN :
        /\ MayFail(fail)
        /\ Failed(fail)
        /\ calls' = Append(calls, Call("projectInformation", idx, None, None, None, Status(fail, TRUE), None))
        /\ IF fail
           THEN /\ source' = source
                /\ pc' = "done"
                /\ idx' = 0
                /\ outcome' = "thrown"
                /\ thrown' = [classified |-> FALSE, message |-> KontentError]
                /\ UNCHANGED <<errlog, returned>>
           ELSE /\ source' = removeSkippedItemsFromImport(canImport, source)
                /\ Land(AfterFilter(source'), importedItems)
    /\ UNCHANGED <<configVars, variantLocals, targetVars, assetLocals, itemLocals, importedItems, log>>

(***************************************************************************)
(* importAssetsAsync: one iteration is viewAsset, viewAsset, and for an    *)
(* asset that is not there uploadBinaryFile, addAsset.  An error leaves    *)
(* the stage (nothing catches it before importAsync does) and the entries  *)
(* of the stage reach the ledger only when the stage returns.              *)
(***************************************************************************)
\* the for..of of importAssetsAsync after the iteration of asset i
NextAsset(i, src) == IF i < Len(src.assets) THEN At("viewAsset1", i + 1) ELSE AfterAssets(src.items)

\* the entries of the asset stage never reach the ledger of importAsync
Wrong_LedgerAfterAsset(i, src, ledger, stage) == ledger

\* the ledger once the iteration of asset i is over
LedgerAfterAsset(i, src, ledger, stage) == IF i < Len(src.assets) THEN ledger ELSE ledger \o stage

\* the skipUpdate entry written without the id of the asset found
Wrong_ExistingAssetEntries(stage, asset, id) ==
    processItem(processItem(stage, "fetch", "asset", id, asset.assetId, None),
                "skipUpdate", "asset", None, asset.assetId, None)

\* the two entries of the else branch: fetch, then skipUpdate
ExistingAssetEntries(stage, asset, id) ==
    processItem(processItem(stage, "fetch", "asset", id, asset.assetId, None),
                "skipUpdate", "asset", id, asset.assetId, None)

\* a lookup whose 404 is taken for an asset
Wrong_ExistingAssetNotFoundAsFound(found, assetId, before) == TargetId(assetId)

\* a lookup whose answer is dropped
Wrong_ExistingAssetAfterView(found, assetId, before) == None

\* existingAsset after a lookup that did not throw: the asset viewed, or on a
\* swallowed 404 what the variable held before
ExistingAssetAfterView(found, assetId, before) == IF found THEN TargetId(assetId) ELSE before

\* first lookup: viewAsset().byAssetExternalId(asset.assetId); a 404 is swallowed
ViewAsset1 ==
    /\ pc = "viewAsset1"
    /\ \E fail \in BOOLEAN :
        LET asset == source.assets[idx]
            found == asset.assetId \in tAssets
        IN /\ MayFail(fail)
           /\ Failed(fail)
           /\ calls' = Append(calls, Call("viewAsset", idx, asset.assetId, None, None, Status(fail, found), None))
           /\ IF fail
              THEN /\ Land(Abort(KontentError), importedItems)
                   /\ UNCHANGED existingAsset
              ELSE /\ Land(At("viewAsset2", idx), importedItems)
                   /\ existingAsset' = ExistingAssetAfterView(found, asset.assetId, None)
    /\ UNCHANGED <<configVars, variantLocals, targetVars, source, itemLocals, importedItems, assetItems,
                   uploadedFile, log>>

\* second lookup, then the branch on existingAsset
ViewAsset2 ==
    /\ pc = "viewAsset2"
    /\ \E fail \in BOOLEAN :
        LET asset == source.assets[idx]
            found == asset.assetId \in tAssets
            existing == ExistingAssetAfterView(found, asset.assetId, existingAsset)
        IN /\ MayFail(fail)
           /\ Failed(fail)
           /\ calls' = Append(calls, Call("viewAsset", idx, asset.assetId, None, None, Status(fail, found), None))
           /\ IF fail
              THEN /\ Land(Abort(KontentError), importedItems)
                   /\ UNCHANGED <<existingAsset, assetItems, importedItems, log>>
              ELSE IF existing = None
              THEN /\ Land(At("uploadBinaryFile", idx), importedItems)
                   /\ existingAsset' = None
                   /\ UNCHANGED <<assetItems, importedItems, log>>
              ELSE /\ assetItems' = ExistingAssetEntries(assetItems, asset, existing)
                   /\ log' = processItemLog(processItemLog(log, "fetch", "asset"), "skipUpdate", "asset")
                   /\ importedItems' = LedgerAfterAsset(idx, source, importedItems, assetItems')
                   /\ existingAsset' = None
                   /\ Land(NextAsset(idx, source), importedItems')
    /\ UNCHANGED <<configVars, variantLocals, targetVars, source, itemLocals, uploadedFile>>

UploadBinaryFile ==
    /\ pc = "uploadBinaryFile"
    /\ \E fail \in BOOLEAN :
        LET asset == source.assets[idx]
        IN /\ MayFail(fail)
           /\ Failed(fail)
           /\ calls' = Append(calls, Call("uploadBinaryFile", idx, asset.assetId, None, asset.filename, Status(fail, TRUE), None))
           /\ IF fail
              THEN /\ Land(Abort(KontentError), importedItems)
                   /\ UNCHANGED <<uploadedFile, assetItems, log>>
              ELSE /\ uploadedFile' = FileId(asset.assetId)
                   /\ assetItems' = processItem(assetItems, "upload", "binaryFile", None, None, None)
                   /\ log' = processItemLog(log, "upload", "binaryFile")
                   /\ Land(At("addAsset", idx), importedItems)
    /\ UNCHANGED <<configVars, variantLocals, targetVars, source, itemLocals, importedItems, existingAsset>>

AddAsset ==
    /\ pc = "addAsset"
    /\ \E fail \in BOOLEAN :
        LET asset == source.assets[idx]
            data == [file_reference |-> uploadedFile, external_id |-> asset.assetId]
        IN /\ MayFail(fail)
           /\ Failed(fail)
           /\ calls' = Append(calls, Call("addAsset", idx, asset.assetId, None, data, Status(fail, TRUE), None))
           /\ IF fail
              THEN /\ Land(Abort(KontentError), importedItems)
                   /\ UNCHANGED <<tAssets, assetItems, importedItems, uploadedFile, log>>
              ELSE /\ tAssets' = tAssets \cup {asset.assetId}
                   /\ assetItems' = processItem(assetItems, "create", "asset",
                                                TargetId(asset.assetId), asset.assetId, None)
                   /\ log' = processItemLog(log, "create", "asset")
                   /\ importedItems' = LedgerAfterAsset(idx, source, importedItems, assetItems')
                   /\ uploadedFile' = None
                   /\ Land(NextAsset(idx, source), importedItems')
    /\ UNCHANGED <<configVars, variantLocals, tItems, tVariants, source, itemLocals, existingAsset>>

(***************************************************************************)
(* importContentItemsAsync, first part: workflows, collections, Pass A.    *)
(***************************************************************************)
\* getWorkflowsAsync
ListWorkflows ==
    /\ pc = "listWorkflows"
    /\ \E fail \in BOOLEAN :
        /\ MayFail(fail)
        /\ Failed(fail)
        /\ calls' = Append(calls, Call("listWorkflows", idx, None, None, None, Status(fail, TRUE), None))
        /\ IF fail
           THEN /\ Land(Abort(KontentError), importedItems)
                /\ UNCHANGED workflows
           ELSE /\ workflows' = tWorkflows
                /\ Land(At("listCollections", 0), importedItems)
    /\ UNCHANGED <<configVars, variantLocals, targetVars, source, assetLocals, preparedItems, collections,
                   importedItems, log>>

\* getCollectionsAsync, then the first for..of up to its first await
ListCollections ==
    /\ pc = "listCollections"
    /\ \E fail \in BOOLEAN :
        /\ MayFail(fail)
        /\ Failed(fail)
        /\ calls' = Append(calls, Call("listCollections", idx, None, None, None, Status(fail, TRUE), None))
        /\ IF fail
           THEN /\ Land(Abort(KontentError), importedItems)
                /\ UNCHANGED collections
           ELSE /\ collections' = TargetCollections
                /\ Land(ContA(1, source.items, preparedItems, skipFailedItems), importedItems)
    /\ UNCHANGED <<configVars, variantLocals, targetVars, source, assetLocals, preparedItems, workflows,
                   importedItems, log>>

\* Pass A after prepareContentItemForImportAsync returned item for row i:
\* preparedItems.push, shouldUpdateContentItem, and the skipUpdate entry or the
\* way to upsertContentItem.  ledger and lines already hold the fetch/create entry.
AfterPrepare(i, row, item, ledger, lines) ==
    LET prepared == Append(preparedItems, Prepared(row.codename, item.name))
        verdict == shouldUpdateContentItem(row, item, collections)
        next == ContA(i + 1, source.items, prepared, skipFailedItems)
    IN /\ preparedItems' = prepared
       /\ IF verdict = "throws"
          THEN /\ importedItems' = ledger
               /\ log' = lines
               /\ Land(CatchItem("A", row, "Invalid collection", next, skipFailedItems), ledger)
          ELSE IF verdict = "update"
          THEN /\ importedItems' = ledger
               /\ log' = lines
               /\ Land(At("upsertContentItem", i), ledger)
          ELSE /\ importedItems' = processItem(ledger, "skipUpdate", "contentItem",
                                               TargetId(row.codename), None, row.codename)
               /\ log' = processItemLog(lines, "skipUpdate", "contentItem")
               /\ Land(next, importedItems')

\* prepareContentItemForImportAsync: viewContentItem().byItemCodename
ViewContentItem ==
    /\ pc = "viewContentItem"
    /\ \E fail \in BOOLEAN :
        LET row == source.items[idx]
            found == row.codename \in DOMAIN tItems
            next == ContA(idx + 1, source.items, preparedItems, skipFailedItems)
        IN /\ MayFail(fail)
           /\ Failed(fail)
           /\ calls' = Append(calls, Call("viewContentItem", idx, row.codename, None, None, Status(fail, found), None))
           /\ IF fail
              THEN /\ Land(CatchItem("A", row, KontentError, next, skipFailedItems), importedItems)
                   /\ UNCHANGED <<preparedItems, importedItems, log>>
              ELSE IF ~found
              THEN /\ Land(At("addContentItem", idx), importedItems)
                   /\ UNCHANGED <<preparedItems, importedItems, log>>
              ELSE AfterPrepare(idx, row, tItems[row.codename],
                                processItem(importedItems, "fetch", "contentItem",
                                            TargetId(row.codename), None, row.codename),
                                processItemLog(log, "fetch", "contentItem"))
    /\ UNCHANGED <<configVars, variantLocals, targetVars, source, assetLocals, workflows, collections>>

\* the 404 branch of prepareContentItemForImportAsync: addContentItem.
\* The target refuses a collection it does not have.
AddContentItem ==
    /\ pc = "addContentItem"
    /\ \E fail \in BOOLEAN :
        LET row == source.items[idx]
            data == [name |-> row.name, codename |-> row.codename, collection |-> row.collection]
            refused == row.collection \notin TargetCollections
            next == ContA(idx + 1, source.items, preparedItems, skipFailedItems)
        IN /\ MayFail(fail)
           /\ Failed(fail)
           /\ calls' = Append(calls, Call("addContentItem", idx, row.codename, None, data, Status(fail \/ refused, TRUE), None))
           /\ IF fail \/ refused
              THEN /\ Land(CatchItem("A", row, KontentError, next, skipFailedItems), importedItems)
                   /\ UNCHANGED <<tItems, preparedItems, importedItems, log>>
              ELSE /\ tItems' = (row.codename :> TItem(row.name, row.collection)) @@ tItems
                   /\ AfterPrepare(idx, row, TItem(row.name, row.collection),
                                   processItem(importedItems, "create", "contentItem",
                                               TargetId(row.codename), None, row.codename),
                                   processItemLog(log, "create", "contentItem"))
    /\ UNCHANGED <<configVars, variantLocals, tAssets, tVariants, source, assetLocals, workflows, collections>>

UpsertContentItem ==
    /\ pc = "upsertContentItem"
    /\ \E fail \in BOOLEAN :
        LET row == source.items[idx]
            data == [name |-> row.name, collection |-> row.collection]
            next == ContA(idx + 1, source.items, preparedItems, skipFailedItems)
        IN /\ MayFail(fail)
           /\ Failed(fail)
           /\ calls' = Append(calls, Call("upsertContentItem", idx, row.codename, None, data, Status(fail, TRUE), None))
           /\ IF fail
              THEN /\ Land(CatchItem("A", row, KontentError, next, skipFailedItems), importedItems)
                   /\ UNCHANGED <<tItems, importedItems, log>>
              ELSE /\ tItems' = [tItems EXCEPT ![row.codename] = TItem(row.name, row.collection)]
                   /\ importedItems' = processItem(importedItems, "upsert", "contentItem",
                                                   TargetId(row.codename), None, row.codename)
                   /\ log' = processItemLog(log, "upsert", "contentItem")
                   /\ Land(next, importedItems')
    /\ UNCHANGED <<configVars, variantLocals, tAssets, tVariants, source, assetLocals, itemLocals>>

(***************************************************************************)
(* importContentItemsAsync, second part: Pass B.                           *)
(***************************************************************************)
\* preparedItems.find((m) => m.codename === importContentItem.codename)
UpsertedContentItem(row) ==
    LET k == FirstIndex({j \in DOMAIN preparedItems : preparedItems[j].codename = row.codename})
    IN IF k = 0 THEN [codename |-> None, name |-> None, id |-> None] ELSE preparedItems[k]

NextB(i) == ContB(i + 1, source.items, preparedItems, skipFailedItems)

\* the catch block of the second for..of
CatchB(row, e) == CatchItem("B", row, e, NextB(idx), skipFailedItems)

\* the upsert comes right after the view, whatever the step of the variant
Wrong_PrepareBranch(row, stepId) == At("upsertLanguageVariant", idx)

\* prepareLanguageVariantForImportAsync after the view: what the step of the
\* variant asks for before the upsert
PrepareBranch(row, stepId) ==
    IF isLanguageVariantPublished(stepId, workflows) THEN At("createNewVersion", idx)
    ELSE IF isLanguageVariantArchived(stepId, workflows)
    THEN IF Falsy(stepId) THEN At("upsertLanguageVariant", idx)
         ELSE IF getWorkflowForGivenStepById(stepId, workflows) = 0
              THEN CatchB(row, "Missing default workflow")
              ELSE At("unArchive", idx)
    ELSE At("upsertLanguageVariant", idx)

\* the step the archived variant is moved to: workflow.steps[0]
newWorkflowStep(stepId) == workflows[getWorkflowForGivenStepById(stepId, workflows)].steps[1]

\* viewLanguageVariant().byItemCodename().byLanguageCodename(); a 404 is swallowed
ViewLanguageVariant ==
    /\ pc = "viewLanguageVariant"
    /\ \E fail \in BOOLEAN :
        LET row == source.items[idx]
            key == <<row.codename, row.language>>
            found == key \in DOMAIN tVariants
        IN /\ MayFail(fail)
           /\ Failed(fail)
           /\ calls' = Append(calls, Call("viewLanguageVariant", idx, row.codename, row.language, None, Status(fail, found),
                                          IF ~fail /\ found THEN tVariants[key] ELSE None))
           /\ IF fail
              THEN /\ Land(CatchB(row, KontentError), importedItems)
                   /\ UNCHANGED <<languageVariantOfContentItem, importedItems, log>>
              ELSE IF ~found
              THEN /\ Land(At("upsertLanguageVariant", idx), importedItems)
                   /\ languageVariantOfContentItem' = None
                   /\ UNCHANGED <<importedItems, log>>
              ELSE /\ languageVariantOfContentItem' = tVariants[key].step
                   /\ importedItems' = processItem(importedItems, "fetch", "languageVariant", None, None, None)
                   /\ log' = processItemLog(log, "fetch", "languageVariant")
                   /\ Land(PrepareBranch(row, tVariants[key].step), importedItems')
    /\ UNCHANGED <<configVars, targetVars, source, assetLocals, itemLocals>>

\* createNewVersionOfLanguageVariant: the target puts the published variant
\* into the first step of its workflow
CreateNewVersion ==
    /\ pc = "createNewVersion"
    /\ \E fail \in BOOLEAN :
        LET row == source.items[idx]
            key == <<row.codename, row.language>>
        IN /\ MayFail(fail)
           /\ Failed(fail)
           /\ calls' = Append(calls, Call("createNewVersion", idx, row.codename, row.language, None, Status(fail, TRUE), None))
           /\ IF fail
              THEN /\ Land(CatchB(row, KontentError), importedItems)
                   /\ UNCHANGED <<tVariants, importedItems, log>>
              ELSE /\ tVariants' = [tVariants EXCEPT ![key].step =
                                        TargetWorkflow(tWorkflows, tVariants[key].wf).steps[1].id]
                   /\ importedItems' = processItem(importedItems, "createNewVersion", "languageVariant",
                                                   None, None, None)
                   /\ log' = processItemLog(log, "createNewVersion", "languageVariant")
                   /\ Land(At("upsertLanguageVariant", idx), importedItems')
    /\ UNCHANGED <<configVars, variantLocals, tAssets, tItems, source, assetLocals, itemLocals>>

\* changeWorkflowStepOfLanguageVariant().byWorkflowStepCodename(newWorkflowStep.codename):
\* the target moves the variant to the step of that codename in the variant's workflow
UnArchive ==
    /\ pc = "unArchive"
    /\ \E fail \in BOOLEAN :
        LET row == source.items[idx]
            key == <<row.codename, row.language>>
            step == newWorkflowStep(languageVariantOfContentItem)
            wf == TargetWorkflow(tWorkflows, tVariants[key].wf)
            refused == ~\E st \in AllSteps(wf) : st.codename = step.codename
        IN /\ MayFail(fail)
           /\ Failed(fail)
           /\ calls' = Append(calls, Call("changeWorkflowStep", idx, row.codename, row.language,
                                          step.codename, Status(fail \/ refused, TRUE), None))
           /\ IF fail \/ refused
              THEN /\ Land(CatchB(row, KontentError), importedItems)
                   /\ UNCHANGED <<tVariants, importedItems, log>>
              ELSE /\ tVariants' = [tVariants EXCEPT ![key].step = StepIdByCodename(wf, step.codename)]
                   /\ importedItems' = processItem(importedItems, "unArchive", "languageVariant",
                                                   None, None, None)
                   /\ log' = processItemLog(log, "unArchive", "languageVariant")
                   /\ Land(At("upsertLanguageVariant", idx), importedItems')
    /\ UNCHANGED <<configVars, variantLocals, tAssets, tItems, source, assetLocals, itemLocals>>

\* the if / else if / else after the upsert: which transition call comes next
WorkflowBranch(row) ==
    IF doesWorkflowStepCodenameRepresentPublishedStep(row.workflow_step, workflows)
    THEN At("publishLanguageVariant", idx)
    ELSE IF doesWorkflowStepCodenameRepresentArchivedStep(row.workflow_step, workflows)
    THEN IF getWorkflowForGivenStepByCodename(row.workflow_step, workflows) = 0
         THEN CatchB(row, "Missing default workflow")
         ELSE At("archiveLanguageVariant", idx)
    ELSE IF getWorkflowForGivenStepByCodename(row.workflow_step, workflows) = 0
         THEN CatchB(row, "Missing default workflow")
         ELSE At("changeWorkflowOfLanguageVariant", idx)

\* upsertLanguageVariant with every element run through getElementContract;
\* a variant the target does not have yet starts in the first step of the default workflow
UpsertLanguageVariant ==
    /\ pc = "upsertLanguageVariant"
    /\ \E fail \in BOOLEAN :
        LET row == source.items[idx]
            key == <<row.codename, row.language>>
            item == UpsertedContentItem(row)
            data == transformToImportValue(row.elements, importedItems)
            wf == NewVariantWorkflow(tWorkflows)
        IN /\ MayFail(fail)
           /\ Failed(fail)
           /\ calls' = Append(calls, Call("upsertLanguageVariant", idx, item.codename, row.language, data, Status(fail, TRUE), None))
           /\ IF fail
              THEN /\ Land(CatchB(row, KontentError), importedItems)
                   /\ UNCHANGED <<tVariants, importedItems, log>>
              ELSE /\ tVariants' = IF key \in DOMAIN tVariants THEN tVariants
                                   ELSE (key :> TVariant(wf.codename, wf.steps[1].id)) @@ tVariants
                   /\ importedItems' = processItem(importedItems, "upsert", "languageVariant",
                                                   item.id, None, row.codename)
                   /\ log' = processItemLog(log, "upsert", "languageVariant")
                   /\ Land(WorkflowBranch(row), importedItems')
    /\ UNCHANGED <<configVars, variantLocals, tAssets, tItems, source, assetLocals, itemLocals>>

\* publishLanguageVariant: the target moves the variant to the published step of its workflow
PublishLanguageVariant ==
    /\ pc = "publishLanguageVariant"
    /\ \E fail \in BOOLEAN :
        LET row == source.items[idx]
            key == <<row.codename, row.language>>
            item == UpsertedContentItem(row)
        IN /\ MayFail(fail)
           /\ Failed(fail)
           /\ calls' = Append(calls, Call("publishLanguageVariant", idx, row.codename, row.language, None, Status(fail, TRUE), None))
           /\ IF fail
              THEN /\ Land(CatchB(row, KontentError), importedItems)
                   /\ UNCHANGED <<tVariants, importedItems, log>>
              ELSE /\ tVariants' = [tVariants EXCEPT ![key].step =
                                        TargetWorkflow(tWorkflows, tVariants[key].wf).publishedStep.id]
                   /\ importedItems' = processItem(importedItems, "publish", "languageVariant",
                                                   item.id, None, row.codename)
                   /\ log' = processItemLog(log, "publish", "languageVariant")
                   /\ Land(NextB(idx), importedItems')
    /\ UNCHANGED <<configVars, variantLocals, tAssets, tItems, source, assetLocals, itemLocals>>

\* changeWorkflowOfLanguageVariant with a step and a workflow codename: the target
\* refuses a step the named workflow does not have
ChangeWorkflowCall(row, stepCodename, wfCodename, action, fail) ==
    LET key == <<row.codename, row.language>>
        item == UpsertedContentItem(row)
        wf == TargetWorkflow(tWorkflows, wfCodename)
        refused == ~\E st \in AllSteps(wf) : st.codename = stepCodename
        data == [step_identifier |-> stepCodename, workflow_identifier |-> wfCodename]
    IN /\ MayFail(fail)
       /\ Failed(fail)
       /\ calls' = Append(calls, Call("changeWorkflowOfLanguageVariant", idx, row.codename, row.language,
                                      data, Status(fail \/ refused, TRUE), None))
       /\ IF fail \/ refused
          THEN /\ Land(CatchB(row, KontentError), importedItems)
               /\ UNCHANGED <<tVariants, importedItems, log>>
          ELSE /\ tVariants' = [tVariants EXCEPT ![key] =
                                    TVariant(wfCodename, StepIdByCodename(wf, stepCodename))]
               /\ importedItems' = processItem(importedItems, action, "languageVariant",
                                               item.id, None, row.codename)
               /\ log' = processItemLog(log, action, "languageVariant")
               /\ Land(NextB(idx), importedItems')

\* the archive branch: step_identifier is workflow.archivedStep.codename
ArchiveLanguageVariant ==
    /\ pc = "archiveLanguageVariant"
    /\ \E fail \in BOOLEAN :
        LET row == source.items[idx]
            workflow == workflows[getWorkflowForGivenStepByCodename(row.workflow_step, workflows)]
        IN ChangeWorkflowCall(row, workflow.archivedStep.codename, workflow.codename, "archive", fail)
    /\ UNCHANGED <<configVars, variantLocals, tAssets, tItems, source, assetLocals, itemLocals>>

\* the else branch: step_identifier is importContentItem.workflow_step
ChangeWorkflowOfLanguageVariant ==
    /\ pc = "changeWorkflowOfLanguageVariant"
    /\ \E fail \in BOOLEAN :
        LET row == source.items[idx]
            workflow == workflows[getWorkflowForGivenStepByCodename(row.workflow_step, workflows)]
        IN ChangeWorkflowCall(row, row.workflow_step, workflow.codename, "changeWorkflowStep", fail)
    /\ UNCHANGED <<configVars, variantLocals, tAssets, tItems, source, assetLocals, itemLocals>>

(***************************************************************************)
(* The caller runs importAsync again with the same source object against   *)
(* the same target, after a run that returned with no failed call and no   *)
(* skipped item.                                                           *)
(***************************************************************************)
ImportAgain ==
    /\ pc = "done"
    /\ outcome = "returned"
    /\ failures = 0
    /\ errlog = <<>>
    /\ run < MaxRuns
    /\ run' = run + 1
    /\ prev' = [clean |-> outcome = "returned" /\ failures = 0 /\ errlog = <<>>,
                variants |-> tVariants]
    /\ pc' = "start"
    /\ idx' = 0
    /\ importedItems' = <<>>
    /\ assetItems' = <<>>
    /\ preparedItems' = <<>>
    /\ workflows' = <<>>
    /\ collections' = {}
    /\ existingAsset' = None
    /\ uploadedFile' = None
    /\ languageVariantOfContentItem' = None
    /\ calls' = <<>>
    /\ log' = <<>>
    /\ errlog' = <<>>
    /\ outcome' = "running"
    /\ thrown' = NotThrown
    /\ returned' = <<>>
    /\ given' = source
    /\ UNCHANGED <<skipFailedItems, canImport, tWorkflows, targetVars, source, failures, helperVars>>

Next ==
    \/ Start
    \/ ViewAsset1
    \/ ViewAsset2
    \/ UploadBinaryFile
    \/ AddAsset
    \/ ListWorkflows
    \/ ListCollections
    \/ ViewContentItem
    \/ AddContentItem
    \/ UpsertContentItem
    \/ ViewLanguageVariant
    \/ CreateNewVersion
    \/ UnArchive
    \/ UpsertLanguageVariant
    \/ PublishLanguageVariant
    \/ ArchiveLanguageVariant
    \/ ChangeWorkflowOfLanguageVariant
    \/ ImportAgain

Spec == Init /\ [][Next]_vars

(***************************************************************************)
(* Reading the history of client calls.                                    *)
(***************************************************************************)
AssetOps == {"viewAsset", "uploadBinaryFile", "addAsset"}

ItemOps == {"viewContentItem", "addContentItem", "upsertContentItem"}

VariantOps == {"viewLanguageVariant", "createNewVersion", "changeWorkflowStep",
               "upsertLanguageVariant", "publishLanguageVariant",
               "changeWorkflowOfLanguageVariant"}

\* the workflow operations: every language variant call but the view and the upsert
TransitionOps == VariantOps \ {"viewLanguageVariant", "upsertLanguageVariant"}

\* 1 for an asset call, 2 for a content item call, 3 for a language variant call
Phase(c) ==
    IF c.op \in AssetOps THEN 1
    ELSE IF c.op \in ItemOps THEN 2
    ELSE IF c.op \in VariantOps THEN 3
    ELSE 0

\* the calls of the Pass B iteration that starts with the view at position i
VariantSegmentEnd(i) ==
    IF \E j \in (i + 1)..Len(calls) : calls[j].op = "viewLanguageVariant"
    THEN (CHOOSE j \in (i + 1)..Len(calls) :
              /\ calls[j].op = "viewLanguageVariant"
              /\ \A k \in (i + 1)..(j - 1) : calls[k].op # "viewLanguageVariant") - 1
    ELSE Len(calls)

VariantSegment(i) == SubSeq(calls, i + 1, VariantSegmentEnd(i))

\* the iteration that starts at position i is over and none of its calls failed
SegmentCompleted(i) ==
    /\ VariantSegmentEnd(i) < Len(calls) \/ pc = "done"
    /\ \A k \in i..VariantSegmentEnd(i) : calls[k].st # "error"

IsTransition(c) == c.op \in TransitionOps

\* the workflow operations of an iteration, each as <<operation, step named>>
TransitionsAfter(i) ==
    LET ops == SelectSeq(VariantSegment(i), IsTransition)
    IN [k \in DOMAIN ops |-> <<ops[k].op, ops[k].data>>]

IsPrefix(s, t) == Len(s) <= Len(t) /\ \A k \in DOMAIN s : s[k] = t[k]

(***************************************************************************)
(* The id translation helper on its own: replaceIdsInRichText applied to   *)
(* a text and a ledger, then to its own result with the same ledger.       *)
(***************************************************************************)
\* the attributes the five regular expressions of replaceIdsInRichText match
IdKinds == {"data-item-id", "data-asset-id", "data-image-id", "data-id"}

MarkerKinds == IdKinds \cup {"data-codename"}

\* values between the quotes of a marker: (.*?) also matches the empty string
MarkerVals == {"", "a", "b"}

Texts == SeqsUpTo([attr : MarkerKinds, val : MarkerVals], MaxMarkers)

\* ledger entries: ids and codenames registered once or twice, an import id that
\* is the original id of another entry, and an original id equal to the placeholder
TableEntries ==
    {Entry("create", "asset", "b", "a", None),
     Entry("create", "asset", "c", "b", None),
     Entry("fetch", "asset", "c", "a", None),
     Entry("create", "contentItem", "b", None, "a"),
     Entry("fetch", "contentItem", "c", None, "a"),
     Entry("create", "asset", "c", Placeholder, None)}

Tables == SeqsUpTo(TableEntries, MaxTable)

\* ids and codenames looked up
LookupKeys == {"a", "b"}

\* string values of the objects of a data tree
TreeTexts == {<<>>, <<Marker("data-item-id", "a")>>, <<Marker("data-codename", "a")>>}

\* objects without object values
Leaves == {Node(u, l, v, ts, <<>>) :
              u \in {None, "a"}, l \in {None, "a"}, v \in TreeTexts,
              ts \in {<<>>, <<<<Marker("data-item-id", "a")>>>>}}

\* data trees: an object with at most one object value
Trees == {Node(l.Id, l.id, l.value, l.texts, kids) : l \in Leaves, kids \in {<<>>} \cup {<<k>> : k \in Leaves}}

\* the import engine at rest
ImportIdle ==
    /\ skipFailedItems = FALSE
    /\ canImport = "undefined"
    /\ tWorkflows = <<WfDefault>>
    /\ tAssets = {}
    /\ tItems = EmptyMap
    /\ tVariants = EmptyMap
    /\ source = [assets |-> <<>>, items |-> <<>>]
    /\ given = source
    /\ pc = "done"
    /\ idx = 0
    /\ importedItems = <<>>
    /\ assetItems = <<>>
    /\ preparedItems = <<>>
    /\ workflows = <<>>
    /\ collections = {}
    /\ existingAsset = None
    /\ uploadedFile = None
    /\ languageVariantOfContentItem = None
    /\ calls = <<>>
    /\ log = <<>>
    /\ errlog = <<>>
    /\ outcome = "running"
    /\ thrown = NotThrown
    /\ returned = <<>>
    /\ run = 1
    /\ failures = 0
    /\ prev = [clean |-> FALSE, variants |-> EmptyMap]

importVars == <<skipFailedItems, canImport, tWorkflows, tAssets, tItems, tVariants, source,
                given, pc, idx, importedItems, assetItems, preparedItems, workflows,
                collections, existingAsset, uploadedFile, languageVariantOfContentItem,
                calls, log, errlog, outcome, thrown, returned, run, failures, prev>>

InitTranslate ==
    /\ ImportIdle
    /\ \/ table \in Tables /\ payload \in Texts /\ applied = "text"
       \/ table \in Tables /\ payload \in Trees /\ applied = "tree"
       \/ table = <<>> /\ payload = "" /\ applied = "ledger"
    /\ rewritten = <<>>

\* text = replaceIdsInRichText(text, items)
RewriteText ==
    /\ applied = "text"
    /\ rewritten' = replaceIdsInRichText(payload, table)
    /\ applied' = "text once"
    /\ UNCHANGED <<importVars, table, payload>>

\* the same call on the text the first call returned
RewriteTextAgain ==
    /\ applied = "text once"
    /\ rewritten' = replaceIdsInRichText(rewritten, table)
    /\ applied' = "text twice"
    /\ UNCHANGED <<importVars, table, payload>>

\* replaceIdReferencesWithNewId(data, items): data is changed in place
TranslateTree ==
    /\ applied = "tree"
    /\ rewritten' = replaceIdReferencesWithNewId(payload, table)
    /\ applied' = "tree once"
    /\ UNCHANGED <<importVars, table, payload>>

\* the same call on the data the first call left
TranslateTreeAgain ==
    /\ applied = "tree once"
    /\ rewritten' = replaceIdReferencesWithNewId(rewritten, table)
    /\ applied' = "tree twice"
    /\ UNCHANGED <<importVars, table, payload>>

\* processItem(importedItems, ...): one more entry in the ledger
Register ==
    /\ applied \in {"ledger", "looked up"}
    /\ Len(table) < MaxTable
    /\ \E e \in TableEntries :
        table' = processItem(table, e.action, e.itemType, e.importId, e.originalId, e.originalCodename)
    /\ UNCHANGED <<importVars, payload, rewritten, applied>>

\* tryFindNewId(id, items) and tryFindNewIdForCodename(id, items); the ledger as
\* it was at the lookup is kept beside the answers
Lookup ==
    /\ applied = "ledger"
    /\ \E id \in LookupKeys :
        /\ payload' = id
        /\ rewritten' = [ledger |-> table,
                         byId |-> tryFindNewId(id, table),
                         byCodename |-> tryFindNewIdForCodename(id, table)]
    /\ applied' = "looked up"
    /\ UNCHANGED <<importVars, table>>

NextTranslate ==
    \/ RewriteText
    \/ RewriteTextAgain
    \/ TranslateTree
    \/ TranslateTreeAgain
    \/ Register
    \/ Lookup

SpecTranslate == InitTranslate /\ [][NextTranslate]_vars

(***************************************************************************)
(* C1.  In every import run every asset call (view, upload, add) comes     *)
(* before every content item call (view, add, upsert), and every content   *)
(* item call comes before every language variant call.                     *)
(***************************************************************************)
C1_CallOrderFixed ==
    \A j \in DOMAIN calls :
        /\ calls[j].op \in AssetOps =>
               \A i \in 1..(j - 1) : calls[i].op \notin ItemOps \cup VariantOps
        /\ calls[j].op \in ItemOps =>
               \A i \in 1..(j - 1) : calls[i].op \notin VariantOps

\* a run that issued asset calls, content item calls and language variant calls
C1_Witness ==
    /\ \E i \in DOMAIN calls : Phase(calls[i]) = 1
    /\ \E i \in DOMAIN calls : Phase(calls[i]) = 2
    /\ \E i \in DOMAIN calls : Phase(calls[i]) = 3
    /\ Cardinality({calls[i].idx : i \in {j \in DOMAIN calls : Phase(calls[j]) = 2}}) > 1

(***************************************************************************)
(* C3.  When the variant viewed is in the archived step of its workflow    *)
(* and the desired step is classified as published, the workflow           *)
(* operations issued for the variant are change-step to the first step of  *)
(* the variant's workflow, then publish: a prefix of that while the        *)
(* iteration runs or when a call of it failed, exactly that once it is     *)
(* over without a failed call.                                             *)
(***************************************************************************)
ArchivedToPublished(i) ==
    /\ calls[i].op = "viewLanguageVariant"
    /\ calls[i].st = "ok"
    /\ calls[i].res.step = TargetWorkflow(tWorkflows, calls[i].res.wf).archivedStep.id
    /\ doesWorkflowStepCodenameRepresentPublishedStep(source.items[calls[i].idx].workflow_step,
                                                      tWorkflows)

UnArchiveThenPublish(i) ==
    <<<<"changeWorkflowStep", TargetWorkflow(tWorkflows, calls[i].res.wf).steps[1].codename>>,
      <<"publishLanguageVariant", None>>>>

C3_UnArchiveThenPublish ==
    \A i \in DOMAIN calls :
        ArchivedToPublished(i) =>
            /\ IsPrefix(TransitionsAfter(i), UnArchiveThenPublish(i))
            /\ SegmentCompleted(i) => TransitionsAfter(i) = UnArchiveThenPublish(i)

\* an archived variant of the second workflow listed was un-archived and published
C3_Witness ==
    \E i \in DOMAIN calls :
        /\ ArchivedToPublished(i)
        /\ SegmentCompleted(i)
        /\ calls[i].res.wf # tWorkflows[1].codename
        /\ Len(TransitionsAfter(i)) = 2

(***************************************************************************)
(* C2.  For an asset whose external id (the source assetId) is in the      *)
(* target, no uploadBinaryFile and no addAsset call is issued, and the     *)
(* iteration records a fetch entry followed by a skipUpdate entry, which   *)
(* are the ledger's entries for it when the import returns.                *)
(***************************************************************************)
\* both lookups of the iteration of asset k found the asset
AssetFound(k) ==
    Cardinality({i \in DOMAIN calls :
                    calls[i].op = "viewAsset" /\ calls[i].idx = k /\ calls[i].st = "ok"}) = 2

C2_ExistingAssetSkipped ==
    /\ pc \in {"uploadBinaryFile", "addAsset"} => source.assets[idx].assetId \notin tAssets
    /\ \A i \in DOMAIN calls :
           calls[i].op \in {"uploadBinaryFile", "addAsset"} =>
               ~\E j \in DOMAIN calls :
                    calls[j].op = "viewAsset" /\ calls[j].idx = calls[i].idx /\ calls[j].st = "ok"
    /\ \A k \in DOMAIN source.assets :
           AssetFound(k) =>
               LET a == source.assets[k].assetId
               IN /\ Len(assetItems) >= 2 * k
                  /\ assetItems[2 * k - 1] = Entry("fetch", "asset", TargetId(a), a, None)
                  /\ assetItems[2 * k] = Entry("skipUpdate", "asset", TargetId(a), a, None)
                  /\ k = Len(source.assets) => Len(assetItems) = 2 * k
    /\ outcome = "returned" => SubSeq(returned, 1, Len(assetItems)) = assetItems

\* the import returned after it found an asset of the source in the target
C2_Witness ==
    /\ outcome = "returned"
    /\ \E k \in DOMAIN source.assets : AssetFound(k)
    /\ Len(returned) >= 2

(***************************************************************************)
(* C4.  When an error aborts the run, the caller of importAsync obtains    *)
(* the ledger entries produced before the error.                           *)
(***************************************************************************)
C4_PartialLedgerReturned == outcome = "thrown" => returned = importedItems

(***************************************************************************)
(* C5.  For a row of the source without workflow step no content item call *)
(* and no language variant call is issued, and when no row of its codename *)
(* has a workflow step the ledger has no entry of that codename.           *)
(***************************************************************************)
C5_NoWorkflowStepNoWrite ==
    \A r \in DOMAIN source.items :
        source.items[r].workflow_step = None =>
            /\ \A i \in DOMAIN calls : Phase(calls[i]) \in {2, 3} => calls[i].idx # r
            /\ (\A q \in DOMAIN source.items :
                    source.items[q].codename = source.items[r].codename
                        => source.items[q].workflow_step = None)
               => /\ \A i \in DOMAIN importedItems :
                        importedItems[i].originalCodename # source.items[r].codename
                  /\ \A i \in DOMAIN calls :
                        Phase(calls[i]) \in {2, 3} => calls[i].key # source.items[r].codename

\* the import returned a ledger for a source whose first row has no workflow step
C5_Witness ==
    /\ outcome = "returned"
    /\ Len(source.items) = 2
    /\ source.items[1].workflow_step = None
    /\ \E i \in DOMAIN calls : calls[i].op = "upsertLanguageVariant" /\ calls[i].st = "ok"

(***************************************************************************)
(* C6.  A second run with the same source against the same target, after   *)
(* a first run that returned without a failed call or a skipped item,      *)
(* issues no uploadBinaryFile, no addAsset and no addContentItem call, and *)
(* when it returns in the same way every language variant is in the        *)
(* workflow state it had at the end of the first run.                      *)
(***************************************************************************)
CleanReturn == outcome = "returned" /\ failures = 0 /\ errlog = <<>>

ComponentReference(r, m) ==
    /\ source.items[r].elements[m].attr = "data-codename"
    /\ \E q \in DOMAIN source.items :
           /\ source.items[q].codename = source.items[r].elements[m].val
           /\ source.items[q].workflow_step = None

C7_ComponentReferenceResolved ==
    \A i \in DOMAIN calls :
        (calls[i].op = "upsertLanguageVariant" /\ calls[i].st = "ok") =>
            \A m \in DOMAIN source.items[calls[i].idx].elements :
                ComponentReference(calls[i].idx, m) =>
                    \E e \in DOMAIN importedItems :
                        /\ importedItems[e].originalCodename = source.items[calls[i].idx].elements[m].val
                        /\ calls[i].data[m] = Marker("data-id", importedItems[e].importId)

(***************************************************************************)
(* C8.  With skipFailedItems true an exception raised for one row in Pass  *)
(* A or Pass B is logged and not thrown: the next call is the lookup of    *)
(* the next row in list order (Pass A goes on to Pass B after its last     *)
(* row), and the import returns its ledger.  With skipFailedItems false    *)
(* nothing is logged and skipped: a failed call or an invalid collection   *)
(* is the last thing the run does, and the import ends with an error.      *)
(***************************************************************************)
LastCall == calls[Len(calls)]

\* rows strictly between r and q
Between(r, q) == {k \in DOMAIN source.items : r < k /\ k < q}

\* row q had its exception of Pass B logged
LoggedB(q) ==
    \E e \in DOMAIN errlog :
        errlog[e] = Logged("B", source.items[q], "Invalid content item")

\* the call after a failed call of Pass A or Pass B opens the next row
ContinuesAfter(i) ==
    LET r == calls[i].idx
        n == calls[i + 1]
    IN IF Phase(calls[i]) = 2 /\ Phase(n) = 2
       THEN /\ n.op = "viewContentItem"
            /\ n.idx > r
            /\ \A k \in Between(r, n.idx) : source.items[k].workflow_step = None
       ELSE /\ Phase(n) = 3
            /\ n.op = "viewLanguageVariant"
            /\ LET from == IF Phase(calls[i]) = 2 THEN 0 ELSE r
               IN /\ n.idx > from
                  /\ \A k \in Between(from, n.idx) :
                        source.items[k].workflow_step = None \/ LoggedB(k)
            /\ Phase(calls[i]) = 2 =>
                  \A k \in DOMAIN source.items : k > r => source.items[k].workflow_step = None

C8_SkipFailedItemsPolicy ==
    /\ skipFailedItems =>
          /\ outcome = "thrown" => Phase(LastCall) \notin {2, 3}
          /\ \A i \in DOMAIN calls :
                (calls[i].st = "error" /\ Phase(calls[i]) \in {2, 3}) =>
                    IF i < Len(calls) THEN ContinuesAfter(i)
                    ELSE pc = "done" => outcome = "returned" /\ returned = importedItems
          /\ (pc = "done" /\ errlog # <<>>) => outcome = "returned" \/ Phase(LastCall) \notin {2, 3}
    /\ ~skipFailedItems =>
          /\ errlog = <<>>
          /\ \A i \in DOMAIN calls :
                \/ calls[i].st = "error"
                \/ /\ calls[i].op \in {"viewContentItem", "addContentItem"}
                   /\ calls[i].st = "ok"
                   /\ source.items[calls[i].idx].collection \notin collections
                => i = Len(calls) /\ pc = "done" /\ outcome = "thrown"

\* the import returned after a failed call of Pass A that was followed by other calls
C8_Witness ==
    /\ skipFailedItems
    /\ outcome = "returned"
    /\ \E i \in DOMAIN calls :
          /\ calls[i].st = "error"
          /\ Phase(calls[i]) = 2
          /\ i < Len(calls)
          /\ Phase(calls[i + 1]) = 2

(***************************************************************************)
(* C9.  With skipFailedItems true the returned ledger has no entry whose   *)
(* originalCodename is the codename of a row whose processing failed.      *)
(***************************************************************************)
C9_FailedItemNotInLedger ==
    (skipFailedItems /\ outcome = "returned") =>
        \A e \in DOMAIN errlog :
            \A k \in DOMAIN returned : returned[k].originalCodename # errlog[e].codename

\* C9 as the code has it: with skipFailedItems true, the ledger has an entry
\* for the codename of a failed row exactly when one lookup or creation of a
\* content item of that codename succeeded in Pass A; such a row keeps what
\* was appended before its exception.
ItemObtained(c) ==
    \E i \in DOMAIN calls :
        /\ calls[i].op \in {"viewContentItem", "addContentItem"}
        /\ calls[i].key = c
        /\ calls[i].st = "ok"

C9_FailedItemKeepsEarlierEntries ==
    skipFailedItems =>
        \A e \in DOMAIN errlog :
            (\E k \in DOMAIN importedItems : importedItems[k].originalCodename = errlog[e].codename)
                <=> ItemObtained(errlog[e].codename)

\* the import returned a ledger with an entry of a row whose processing failed
C9_Witness ==
    /\ skipFailedItems
    /\ outcome = "returned"
    /\ \E e \in DOMAIN errlog :
          /\ ItemObtained(errlog[e].codename)
          /\ \E k \in DOMAIN returned : returned[k].originalCodename = errlog[e].codename
    /\ \E e \in DOMAIN errlog : ~ItemObtained(errlog[e].codename)

(***************************************************************************)
(* C10.  An invalid collection and a missing default workflow abort the    *)
(* import whatever skipFailedItems is: neither is ever logged and skipped. *)
(***************************************************************************)
C10_ValidationAlwaysFatal ==
    \A e \in DOMAIN errlog :
        errlog[e].error \notin {"Invalid collection", "Missing default workflow"}

(***************************************************************************)
(* C11.  A failed call of the asset stage (a lookup that fails with        *)
(* another error than 404, a failed uploadBinaryFile, a failed addAsset)   *)
(* is the last call of the run and the import ends with an error, for both *)
(* values of skipFailedItems: no later asset, content item or language     *)
(* variant is processed, and the failure is not logged and skipped.        *)
(***************************************************************************)
C11_AssetFailureFatal ==
    \A i \in DOMAIN calls :
        (calls[i].op \in AssetOps /\ calls[i].st = "error") =>
            /\ i = Len(calls)
            /\ pc = "done"
            /\ outcome = "thrown"
            /\ errlog = <<>>

\* with skipFailedItems true a call of the asset stage failed while content
\* items with a workflow step were still to be imported
C11_Witness ==
    /\ skipFailedItems
    /\ outcome = "thrown"
    /\ calls # <<>>
    /\ LastCall.op \in AssetOps
    /\ LastCall.st = "error"
    /\ \E r \in DOMAIN source.items : source.items[r].workflow_step # None

(***************************************************************************)
(* C12.  Whenever an upsertLanguageVariant call is issued, every row of    *)
(* the working set with a workflow step has its content item in the        *)
(* target: an earlier call of Pass A fetched or created it.                *)
(***************************************************************************)
\* a call before position i fetched or created the content item of codename c
ObtainedBefore(i, c) ==
    \E j \in 1..(i - 1) :
        /\ calls[j].op \in {"viewContentItem", "addContentItem"}
        /\ calls[j].key = c
        /\ calls[j].st = "ok"

AllItemsObtainedBefore(i) ==
    \A r \in DOMAIN source.items :
        source.items[r].workflow_step # None => ObtainedBefore(i, source.items[r].codename)

C12_AllItemsExistBeforeVariants ==
    \A i \in DOMAIN calls :
        calls[i].op = "upsertLanguageVariant" => AllItemsObtainedBefore(i)

\* C12 as the code has it: with skipFailedItems false every row with a
\* workflow step has its item fetched or created before any variant is
\* upserted; with skipFailedItems true this holds of the item of the variant
\* that is upserted, not of the items whose Pass A iteration failed.
C12_ItemsExistBeforeVariants ==
    \A i \in DOMAIN calls :
        calls[i].op = "upsertLanguageVariant" =>
            /\ ObtainedBefore(i, calls[i].key)
            /\ calls[i].key \in DOMAIN tItems
            /\ ~skipFailedItems => AllItemsObtainedBefore(i)

\* a variant was upserted while the item of another row with a workflow step
\* is not in the target
C12_Witness ==
    /\ skipFailedItems
    /\ \E i \in DOMAIN calls : calls[i].op = "upsertLanguageVariant" /\ calls[i].st = "ok"
    /\ \E r \in DOMAIN source.items :
          /\ source.items[r].workflow_step # None
          /\ source.items[r].codename \notin DOMAIN tItems

(***************************************************************************)
(* C13.  An asset or content item of the source for which the canImport    *)
(* predicate of the configuration returns false is out of the working set  *)
(* once removeSkippedItemsFromImport has run, which is before any call but *)
(* projectInformation; no asset, content item or language variant call     *)
(* carries its assetId or codename and no ledger entry has it as           *)
(* originalId or originalCodename.                                         *)
(***************************************************************************)
RejectedAssetIds ==
    {given.assets[i].assetId :
        i \in {j \in DOMAIN given.assets : ~canImportAsset(canImport, given.assets[j])}}

RejectedCodenames ==
    {given.items[i].codename :
        i \in {j \in DOMAIN given.items : ~canImportContentItem(canImport, given.items[j])}}

\* removeSkippedItemsFromImport has run: importAsync is past its first await
Filtered == pc # "start" /\ ~(Len(calls) = 1 /\ calls[1].st = "error")

C13_RejectedNeverImported ==
    LET assetIds == RejectedAssetIds
        codenames == RejectedCodenames
    IN /\ Filtered =>
             /\ \A i \in DOMAIN source.assets : source.assets[i].assetId \notin assetIds
             /\ \A i \in DOMAIN source.items : source.items[i].codename \notin codenames
       /\ \A i \in DOMAIN calls :
             /\ Phase(calls[i]) = 1 => calls[i].key \notin assetIds
             /\ Phase(calls[i]) \in {2, 3} => calls[i].key \notin codenames
       /\ \A i \in DOMAIN importedItems :
             /\ importedItems[i].originalId \notin assetIds
             /\ importedItems[i].originalCodename \notin codenames
       /\ \A i \in DOMAIN assetItems : assetItems[i].originalId \notin assetIds

\* the import returned a ledger after the predicates rejected an asset and a
\* content item and accepted another content item
C13_Witness ==
    /\ outcome = "returned"
    /\ RejectedAssetIds # {}
    /\ RejectedCodenames # {}
    /\ source.items # <<>>
    /\ returned # <<>>

(***************************************************************************)
(* C14.  A row whose step codename is the archivedStep codename of one of  *)
(* the workflows of the target takes the archive branch after its variant  *)
(* is upserted, at whatever position that workflow stands in the list: the *)
(* next call for the row is changeWorkflowOfLanguageVariant to the         *)
(* archivedStep of the workflow found for the codename.                    *)
(***************************************************************************)
\* positions in the fetched list of the workflows whose archivedStep has codename c
ArchivedIn(c) == {k \in DOMAIN workflows : workflows[k].archivedStep.codename = c}

\* the call at position i upserted the variant of a row whose step is an archived step
UpsertedForArchive(i) ==
    /\ calls[i].op = "upsertLanguageVariant"
    /\ calls[i].st = "ok"
    /\ ArchivedIn(source.items[calls[i].idx].workflow_step) # {}

C14_ArchivedAtAnyPosition ==
    \A i \in DOMAIN calls :
        UpsertedForArchive(i) =>
            LET row == source.items[calls[i].idx]
                wf == workflows[getWorkflowForGivenStepByCodename(row.workflow_step, workflows)]
            IN IF i = Len(calls)
               THEN pc = "archiveLanguageVariant" /\ idx = calls[i].idx
               ELSE /\ calls[i + 1].op = "changeWorkflowOfLanguageVariant"
                    /\ calls[i + 1].idx = calls[i].idx
                    /\ calls[i + 1].data = [step_identifier |-> wf.archivedStep.codename,
                                            workflow_identifier |-> wf.codename]
                    /\ calls[i + 1].st = "ok" =>
                          \E e \in DOMAIN importedItems :
                              importedItems[e] = Entry("archive", "languageVariant",
                                                       TargetId(row.codename), None, row.codename)

\* the archive call was issued for a step that only the second workflow of the
\* list has as its archivedStep
C14_Witness ==
    \E i \in DOMAIN calls :
        /\ UpsertedForArchive(i)
        /\ ArchivedIn(source.items[calls[i].idx].workflow_step) = {2}
        /\ i < Len(calls)
        /\ calls[i + 1].st = "ok"

(***************************************************************************)
(* C15.  replaceIdsInRichText leaves a marker of the four id-keyed kinds   *)
(* (data-item-id, data-asset-id, data-image-id, data-id) as it is when the *)
(* table does not resolve its value, and replaces a data-codename marker   *)
(* the table does not resolve by the placeholder, so that its source value *)
(* is not in the output.                                                   *)
(***************************************************************************)
UnresolvedKept(m) ==
    (payload[m].attr \in IdKinds /\ Falsy(tryFindNewId(payload[m].val, table)))
        => rewritten[m] = payload[m]

SecondChangesNothing ==
    /\ applied = "text twice" => rewritten = replaceIdsInRichText(payload, table)
    /\ applied = "tree twice" => rewritten = replaceIdReferencesWithNewId(payload, table)

FullyResolving(items) ==
    /\ \A i, j \in DOMAIN items : items[i].importId # items[j].originalId
    /\ \A j \in DOMAIN items : items[j].originalId # Placeholder

C16_WitnessText ==
    /\ applied = "text twice"
    /\ FullyResolving(table)
    /\ payload # <<>>
    /\ rewritten # payload

(***************************************************************************)
(* C17.  At every point of a run the ledger holds at most one entry for    *)
(* each distinct originalId.                                               *)
(***************************************************************************)
Ledgers == {importedItems, assetItems}

C17_OneEntryPerOriginalId ==
    \A items \in Ledgers : \A i, j \in DOMAIN items :
        (items[i].originalId # None /\ items[i].originalId = items[j].originalId) => i = j

\* C17 as the code has it: an asset found in the target is entered twice, as
\* fetch and as skipUpdate; the entries that share an originalId all carry the
\* same importId.
C17_OneImportIdPerOriginalId ==
    \A items \in Ledgers : \A i, j \in DOMAIN items :
        (items[i].originalId # None /\ items[i].originalId = items[j].originalId)
            => items[i].importId = items[j].importId

\* the ledger of the run holds two entries for one asset
C17_Witness ==
    \E i, j \in DOMAIN importedItems :
        /\ i < j
        /\ importedItems[i].originalId # None
        /\ importedItems[i].originalId = importedItems[j].originalId
        /\ importedItems[i].action = "fetch"
        /\ importedItems[j].action = "skipUpdate"

(***************************************************************************)
(* C18.  Entries of the ledger are never modified or removed once          *)
(* appended, and a lookup by id (or by codename) returns the importId of   *)
(* the earliest appended entry with that originalId (or originalCodename): *)
(* the first registration wins over any later one.                         *)
(***************************************************************************)
\* v is the importId of the earliest entry among hits, or None without a hit
OfEarliest(v, hits) ==
    IF hits = {} THEN v = None
    ELSE \E k \in hits : (\A j \in hits : k <= j) /\ v = table[k].importId

C18_FirstRegistrationWins ==
    applied = "looked up" =>
        /\ IsPrefix(rewritten.ledger, table)
        /\ OfEarliest(tryFindNewId(payload, table),
                      {k \in DOMAIN table : table[k].originalId = payload})
        /\ OfEarliest(tryFindNewIdForCodename(payload, table),
                      {k \in DOMAIN table : table[k].originalCodename = payload})
        /\ rewritten.byId # None => tryFindNewId(payload, table) = rewritten.byId
        /\ rewritten.byCodename # None => tryFindNewIdForCodename(payload, table) = rewritten.byCodename

\* after a lookup that found an entry, an entry with the same originalId and
\* another importId was registered
C18_Witness ==
    /\ applied = "looked up"
    /\ rewritten.byId # None
    /\ Len(rewritten.ledger) < Len(table)
    /\ table[Len(table)].originalId = payload
    /\ table[Len(table)].importId # rewritten.byId

(***************************************************************************)
(* C19.  When the variant viewed is in an archived step and the step of    *)
(* the row is classified as archived, no workflow operation is issued for  *)
(* the variant: no un-archive change-step and no change-step to archived.  *)
(***************************************************************************)
ArchivedToArchived(i) ==
    /\ calls[i].op = "viewLanguageVariant"
    /\ calls[i].st = "ok"
    /\ calls[i].res.step = TargetWorkflow(tWorkflows, calls[i].res.wf).archivedStep.id
    /\ doesWorkflowStepCodenameRepresentArchivedStep(source.items[calls[i].idx].workflow_step,
                                                     tWorkflows)

C19_ArchivedStaysUntouched ==
    \A i \in DOMAIN calls : ArchivedToArchived(i) => TransitionsAfter(i) = <<>>

\* C19 as the code has it: the variant is un-archived to the first step of its
\* workflow before the upsert and moved to the archived step after it; a prefix
\* of that while the iteration runs or when a call of it failed.
UnArchiveUpsertArchive(i) ==
    LET row == source.items[calls[i].idx]
        wf == workflows[getWorkflowForGivenStepByCodename(row.workflow_step, workflows)]
    IN <<<<"changeWorkflowStep", TargetWorkflow(tWorkflows, calls[i].res.wf).steps[1].codename>>,
         <<"upsertLanguageVariant">>,
         <<"changeWorkflowOfLanguageVariant",
           [step_identifier |-> wf.archivedStep.codename, workflow_identifier |-> wf.codename]>>>>

\* the calls of an iteration after its view: the workflow operations with the
\* step they name, the upsert by its name alone
CallsAfter(i) ==
    [k \in DOMAIN VariantSegment(i) |->
        IF IsTransition(VariantSegment(i)[k])
        THEN <<VariantSegment(i)[k].op, VariantSegment(i)[k].data>>
        ELSE <<VariantSegment(i)[k].op>>]

C19_ArchivedReArchived ==
    \A i \in DOMAIN calls :
        ArchivedToArchived(i) =>
            /\ IsPrefix(CallsAfter(i), UnArchiveUpsertArchive(i))
            /\ SegmentCompleted(i) => CallsAfter(i) = UnArchiveUpsertArchive(i)

\* an archived variant whose row names an archived step went through its iteration
C19_Witness ==
    \E i \in DOMAIN calls :
        /\ ArchivedToArchived(i)
        /\ SegmentCompleted(i)
        /\ Len(TransitionsAfter(i)) = 2

(***************************************************************************)
(* C20.  When the variant viewed is in the published step of one of the    *)
(* workflows of the target, exactly one createNewVersion call is issued    *)
(* for it, before the variant is upserted, and the call that moves it to   *)
(* the step of the row (publish, change to the archived step, or change to *)
(* the step named) is issued after the upsert: the calls after the view    *)
(* are these three in this order once the iteration is over without a      *)
(* failed call, a prefix of them while it runs or when a call failed; the  *)
(* third is missing where the iteration ends in 'Missing default workflow'.*)
(***************************************************************************)
PublishedVariant(i) ==
    /\ calls[i].op = "viewLanguageVariant"
    /\ calls[i].st = "ok"
    /\ \E k \in DOMAIN tWorkflows : tWorkflows[k].publishedStep.id = calls[i].res.step

\* the call of the branch taken after the upsert; none when 'Missing default
\* workflow' is thrown on the way to it
DesiredTransition(row) ==
    LET w == getWorkflowForGivenStepByCodename(row.workflow_step, workflows)
    IN IF doesWorkflowStepCodenameRepresentPublishedStep(row.workflow_step, workflows)
       THEN <<<<"publishLanguageVariant", None>>>>
       ELSE IF w = 0
       THEN <<>>
       ELSE IF doesWorkflowStepCodenameRepresentArchivedStep(row.workflow_step, workflows)
       THEN <<<<"changeWorkflowOfLanguageVariant",
                [step_identifier |-> workflows[w].archivedStep.codename,
                 workflow_identifier |-> workflows[w].codename]>>>>
       ELSE <<<<"changeWorkflowOfLanguageVariant",
                [step_identifier |-> row.workflow_step,
                 workflow_identifier |-> workflows[w].codename]>>>>

NewVersionUpsertTransition(i) ==
    <<<<"createNewVersion", None>>, <<"upsertLanguageVariant">>>>
        \o DesiredTransition(source.items[calls[i].idx])

C20_NewVersionBeforeUpsert ==
    \A i \in DOMAIN calls :
        PublishedVariant(i) =>
            /\ IsPrefix(CallsAfter(i), NewVersionUpsertTransition(i))
            /\ SegmentCompleted(i) => CallsAfter(i) = NewVersionUpsertTransition(i)

\* a published variant got a new version, was upserted and then moved to a step
\* that is neither a published nor an archived step
C20_Witness ==
    \E i \in DOMAIN calls :
        /\ PublishedVariant(i)
        /\ SegmentCompleted(i)
        /\ Len(CallsAfter(i)) = 3
        /\ CallsAfter(i)[3][1] = "changeWorkflowOfLanguageVariant"
        /\ CallsAfter(i)[3][2].step_identifier = source.items[calls[i].idx].workflow_step

(***************************************************************************)
(* C21.  In Pass A, for an item the target has under the codename of the   *)
(* row, upsertContentItem is issued if and only if the name of the row     *)
(* differs from the name of the target's item or the collection of the row *)
(* differs from the collection of the target's item; otherwise a           *)
(* skipUpdate entry is recorded and no upsert is issued.                   *)
(***************************************************************************)
\* the last call viewed the item of a row whose collection the target has
ItemJustFound ==
    /\ calls # <<>>
    /\ LastCall.op = "viewContentItem"
    /\ LastCall.st = "ok"
    /\ source.items[LastCall.idx].collection \in collections

C21_UpsertIffNameOrCollectionDiffers ==
    ItemJustFound =>
        LET row == source.items[LastCall.idx]
            item == tItems[row.codename]
        IN IF row.name # item.name \/ row.collection # item.collection
           THEN pc = "upsertContentItem" /\ idx = LastCall.idx
           ELSE /\ pc # "upsertContentItem"
                /\ importedItems[Len(importedItems)].action = "skipUpdate"

(***************************************************************************)
(* C22.  getWorkflowForGivenStepByCodename returns the first workflow in   *)
(* list order whose archivedStep, publishedStep or steps hold the          *)
(* codename; when no workflow holds it, the workflow whose codename is the *)
(* default workflow codename; when there is none either, it throws         *)
(* 'Missing default workflow'.  getWorkflowForGivenStepById does the same  *)
(* by step id.                                                             *)
(***************************************************************************)
\* step codenames and ids asked for: those of the workflows and one no workflow has
StepCodenamesAsked == {"draft", "arch_b", "published", "archived", "draft_b", "ghost"}

StepIdsAsked == {"d1", "d2", "dp", "da", "b1", "bp", "ba", "zz"}

\* r is what the claim says is returned when the workflows at the positions
\* hits are those that hold the step; 0 stands for the error thrown
ReturnedAsClaimed(r, hits, wfs) ==
    IF hits # {}
    THEN r \in hits /\ \A j \in hits : r <= j
    ELSE IF \E i \in DOMAIN wfs : wfs[i].codename = defaultWorkflowCodename
    THEN r \in DOMAIN wfs /\ wfs[r].codename = defaultWorkflowCodename
    ELSE r = 0

HoldersOfCodename(c, wfs) ==
    {i \in DOMAIN wfs :
        c \in {wfs[i].archivedStep.codename, wfs[i].publishedStep.codename}
                \cup {wfs[i].steps[k].codename : k \in DOMAIN wfs[i].steps}}

HoldersOfId(id, wfs) ==
    {i \in DOMAIN wfs :
        id \in {wfs[i].archivedStep.id, wfs[i].publishedStep.id}
                 \cup {wfs[i].steps[k].id : k \in DOMAIN wfs[i].steps}}

\* the list is assigned by ListWorkflows alone, so the states right after it
\* show every list the lookups are given
C22_FirstMatchElseDefault ==
    /\ (workflows # <<>> /\ pc = "listCollections") =>
           /\ \A c \in StepCodenamesAsked :
                  ReturnedAsClaimed(getWorkflowForGivenStepByCodename(c, workflows),
                                    HoldersOfCodename(c, workflows), workflows)
           /\ \A id \in StepIdsAsked :
                  ReturnedAsClaimed(getWorkflowForGivenStepById(id, workflows),
                                    HoldersOfId(id, workflows), workflows)
    /\ \A i \in DOMAIN calls :
           calls[i].op = "changeWorkflowOfLanguageVariant" =>
               ReturnedAsClaimed(
                   CHOOSE r \in DOMAIN workflows :
                       workflows[r].codename = calls[i].data.workflow_identifier,
                   HoldersOfCodename(source.items[calls[i].idx].workflow_step, workflows),
                   workflows)

\* a change-step call named the first workflow of the list, which is not the
\* default one, for a step that both workflows of the list hold
C22_Witness ==
    \E i \in DOMAIN calls :
        /\ calls[i].op = "changeWorkflowOfLanguageVariant"
        /\ Len(workflows) = 2
        /\ workflows[1].codename # defaultWorkflowCodename
        /\ calls[i].data.workflow_identifier = workflows[1].codename
        /\ HoldersOfCodename(source.items[calls[i].idx].workflow_step, workflows) = {1, 2}

(***************************************************************************)
(* C23.  In the asset stage a lookup that fails with status 404 counts as  *)
(* 'asset absent': the import goes on to uploadBinaryFile and addAsset for *)
(* the asset.  A lookup that fails in any other way ends the stage with    *)
(* the error, and no upload or create call is issued for the asset.        *)
(***************************************************************************)
\* the call at position i is the second of the two lookups of its asset
SecondLookup(i) ==
    /\ i > 1
    /\ calls[i].op = "viewAsset"
    /\ calls[i - 1].op = "viewAsset"
    /\ calls[i - 1].idx = calls[i].idx

\* the call at position n is the call op for the same asset as the call before
\* it, or that call is the next to be issued
FollowedBy(n, op) ==
    IF n > Len(calls)
    THEN pc = op /\ idx = calls[n - 1].idx
    ELSE calls[n].op = op /\ calls[n].idx = calls[n - 1].idx

C23_NotFoundIsAbsent ==
    \A i \in DOMAIN calls :
        calls[i].op = "viewAsset" =>
            /\ calls[i].st = "error" =>
                   /\ i = Len(calls)
                   /\ outcome = "thrown"
                   /\ \A j \in DOMAIN calls :
                          calls[j].idx = calls[i].idx => calls[j].op \notin {"uploadBinaryFile", "addAsset"}
            /\ (calls[i].st = "notFound" /\ SecondLookup(i)) =>
                   /\ FollowedBy(i + 1, "uploadBinaryFile")
                   /\ (i < Len(calls) /\ calls[i + 1].st = "ok") => FollowedBy(i + 2, "addAsset")
            /\ (calls[i].st = "notFound" /\ ~SecondLookup(i)) =>
                   IF i = Len(calls) THEN pc = "viewAsset2" /\ idx = calls[i].idx
                   ELSE SecondLookup(i + 1)

\* both lookups of an asset ended with 404 and the asset was uploaded and created
C23_Witness ==
    \E i \in DOMAIN calls :
        /\ SecondLookup(i)
        /\ calls[i].st = "notFound"
        /\ calls[i - 1].st = "notFound"
        /\ i + 2 <= Len(calls)
        /\ calls[i + 2].op = "addAsset"
        /\ calls[i + 2].st = "ok"

(***************************************************************************)
(* C24.  For an asset the target does not have, uploadBinaryFile is issued *)
(* before addAsset, addAsset carries the id of the file uploaded and the   *)
(* assetId of the source as external_id, the ledger gains an upload entry  *)
(* followed by a create entry, and once the asset stage is over a lookup   *)
(* by the assetId of the source gives the id of the asset created.         *)
(***************************************************************************)
\* importAssetsAsync has returned
AssetStageOver ==
    /\ pc \notin {"start", "viewAsset1", "viewAsset2", "uploadBinaryFile", "addAsset"}
    /\ \A i \in DOMAIN calls : calls[i].op \in AssetOps => calls[i].st # "error"

C24_UploadThenCreate ==
    \A i \in DOMAIN calls :
        calls[i].op = "addAsset" =>
            LET a == source.assets[calls[i].idx].assetId
            IN /\ i > 1
               /\ calls[i - 1].op = "uploadBinaryFile"
               /\ calls[i - 1].idx = calls[i].idx
               /\ calls[i - 1].st = "ok"
               /\ calls[i].data = [file_reference |-> FileId(a), external_id |-> a]
               /\ calls[i].st = "ok" =>
                      /\ \E e \in DOMAIN assetItems :
                             /\ e < Len(assetItems)
                             /\ assetItems[e] = Entry("upload", "binaryFile", None, None, None)
                             /\ assetItems[e + 1] = Entry("create", "asset", TargetId(a), a, None)
                      /\ AssetStageOver =>
                             /\ IsPrefix(assetItems, importedItems)
                             /\ tryFindNewId(a, importedItems) = TargetId(a)

\* an asset was uploaded and created and content items were imported after it
C24_Witness ==
    /\ AssetStageOver
    /\ \E i \in DOMAIN calls : calls[i].op = "addAsset" /\ calls[i].st = "ok"
    /\ \E i \in DOMAIN calls : calls[i].op = "upsertLanguageVariant" /\ calls[i].st = "ok"

(***************************************************************************)
(* C25.  Every successful upload, create, upsert, publish, archive,        *)
(* change-step, create-new-version and un-archive call has appended        *)
(* exactly one ledger entry of its action by the time the next client call *)
(* is issued; a fetch entry is in the ledger without a log line, and every *)
(* other entry has exactly one log line.                                   *)
(***************************************************************************)
\* the entries recorded so far: those of the asset stage are in the array of
\* the stage until it returns
Recorded == IF IsPrefix(assetItems, importedItems) THEN importedItems ELSE assetItems

NotFetch(e) == e.action # "fetch"

\* the item type and the actions of the entry that a successful call of the
\* operation op is to leave in the ledger
EntryOf(op) ==
    CASE op = "uploadBinaryFile" -> [itemType |-> "binaryFile", actions |-> {"upload"}]
      [] op = "addAsset" -> [itemType |-> "asset", actions |-> {"create"}]
      [] op = "addContentItem" -> [itemType |-> "contentItem", actions |-> {"create"}]
      [] op = "upsertContentItem" -> [itemType |-> "contentItem", actions |-> {"upsert"}]
      [] op = "upsertLanguageVariant" -> [itemType |-> "languageVariant", actions |-> {"upsert"}]
      [] op = "publishLanguageVariant" -> [itemType |-> "languageVariant", actions |-> {"publish"}]
      [] op = "createNewVersion" ->
             [itemType |-> "languageVariant", actions |-> {"createNewVersion"}]
      [] op = "changeWorkflowStep" -> [itemType |-> "languageVariant", actions |-> {"unArchive"}]
      [] op = "changeWorkflowOfLanguageVariant" ->
             [itemType |-> "languageVariant", actions |-> {"archive", "changeWorkflowStep"}]
      [] OTHER -> [itemType |-> None, actions |-> {}]

\* c is a successful call of one of the operations of the claim
Recording(c) == c.st = "ok" /\ EntryOf(c.op).actions # {}

\* e is an entry that a call of the claim leaves: the other entries say that
\* the item or the asset was found in the target
OfACall(e) == e.action \notin {"fetch", "skipUpdate"}

\* the k-th successful call has left the k-th entry, and the log has a line
\* for every entry that is not a fetch
C25_OneEntryPerCall ==
    LET rec == Recorded
        shown == SelectSeq(rec, NotFetch)
        made == SelectSeq(rec, OfACall)
        done == SelectSeq(calls, Recording)
    IN /\ Len(made) = Len(done)
       /\ \A k \in DOMAIN done :
              /\ made[k].itemType = EntryOf(done[k].op).itemType
              /\ made[k].action \in EntryOf(done[k].op).actions
       /\ log = [k \in DOMAIN shown |-> <<shown[k].itemType, shown[k].action>>]

\* the ledger holds a fetch entry and more entries than the log has lines
C25_Witness ==
    /\ outcome = "returned"
    /\ \E e \in DOMAIN importedItems : importedItems[e].action = "fetch"
    /\ \E e \in DOMAIN importedItems : importedItems[e].action = "publish"
    /\ Len(log) < Len(importedItems)

(***************************************************************************)
(* C26.  In replaceIdReferencesWithNewId the value under a key that is     *)
(* 'id' in any case ('id', 'Id', 'ID') is replaced by the id the table has *)
(* for it, whenever the table resolves the value.                          *)
(***************************************************************************)
\* v was under an id key before the call and w is under it after the call
IdKeyTranslated(v, w) ==
    (v # None /\ ~Falsy(tryFindNewId(v, table))) => w = tryFindNewId(v, table)

C26_IdKeysAnyCase ==
    applied = "tree once" =>
        /\ IdKeyTranslated(payload.id, rewritten.id)
        /\ IdKeyTranslated(payload.Id, rewritten.Id)
        /\ \A k \in DOMAIN payload.kids :
               /\ IdKeyTranslated(payload.kids[k].id, rewritten.kids[k].id)
               /\ IdKeyTranslated(payload.kids[k].Id, rewritten.kids[k].Id)

(***************************************************************************)
(* C27.  replaceIdReferencesWithNewId passes every string of the tree that *)
(* starts with < and ends with > through replaceIdsInRichText, wherever it *)
(* sits: as the value of a key at any depth and as an element of an array  *)
(* at any depth.                                                           *)
(***************************************************************************)
\* the strings of the object after are those of the object before, rewritten
StringsRewritten(before, after) ==
    /\ after.value = replaceIdsInRichText(before.value, table)
    /\ \A k \in DOMAIN before.texts :
           after.texts[k] = replaceIdsInRichText(before.texts[k], table)

C27_EveryStringRewritten ==
    applied = "tree once" =>
        /\ StringsRewritten(payload, rewritten)
        /\ \A k \in DOMAIN payload.kids : StringsRewritten(payload.kids[k], rewritten.kids[k])

(***************************************************************************)
(* C28.  removeSkippedItemsFromImport keeps, in their order, every asset   *)
(* and every content item row the predicate of the caller accepted, also   *)
(* when several rows share an assetId or a codename.                       *)
(***************************************************************************)
C28_AcceptedRowsKept ==
    Filtered =>
        /\ source.assets = SelectSeqBy(given.assets,
                                       {i \in DOMAIN given.assets : canImportAsset(canImport, given.assets[i])})
        /\ source.items = SelectSeqBy(given.items,
                                      {i \in DOMAIN given.items : canImportContentItem(canImport, given.items[i])})

(***************************************************************************)
(* C29.  With skipFailedItems true, a row whose Pass A iteration raised an *)
(* exception (an invalid collection, a failed call for the content item)   *)
(* gets no language variant call in Pass B: no view, no upsert, no         *)
(* workflow operation.                                                     *)
(***************************************************************************)
\* the exception of row r in Pass A was logged
FailedInPassA(r) ==
    \E e \in DOMAIN errlog :
        /\ errlog[e].pass = "A"
        /\ errlog[e].codename = source.items[r].codename
        /\ errlog[e].language = source.items[r].language

C29_FailedItemSkippedInPassB ==
    skipFailedItems =>
        \A r \in DOMAIN source.items :
            FailedInPassA(r) =>
                \A i \in DOMAIN calls : calls[i].op \in VariantOps => calls[i].idx # r

(***************************************************************************)
(* C30.  When the step of the row is classified as archived, the           *)
(* change-step call issued names that step codename and a workflow whose   *)
(* archivedStep has that codename, for every list of workflows, also when  *)
(* an earlier workflow of the list has the codename as an ordinary step.   *)
(***************************************************************************)
C30_ArchiveNamesOwnWorkflow ==
    \A i \in DOMAIN calls :
        (UpsertedForArchive(i) /\ i < Len(calls)) =>
            LET c == source.items[calls[i].idx].workflow_step
            IN /\ calls[i + 1].op = "changeWorkflowOfLanguageVariant"
               /\ calls[i + 1].data.step_identifier = c
               /\ TargetWorkflow(tWorkflows, calls[i + 1].data.workflow_identifier).archivedStep.codename = c

(***************************************************************************)
(* C31.  Whenever upsertLanguageVariant is issued for an (item, language)  *)
(* pair, the variant of the target is absent or in a step that is neither  *)
(* a published nor an archived step: a variant the view showed as          *)
(* published has had createNewVersion issued first, and a variant the view *)
(* showed as archived has had a change-step to the first step of its       *)
(* workflow issued first.                                                  *)
(***************************************************************************)
\* the step with this id is the published step of a workflow of the target
PublishedInTarget(stepId) ==
    \E i \in DOMAIN tWorkflows : tWorkflows[i].publishedStep.id = stepId

\* the step with this id is the archived step of a workflow of the target
ArchivedInTarget(stepId) ==
    \E i \in DOMAIN tWorkflows : tWorkflows[i].archivedStep.id = stepId

\* the call at position n is the view of the pair of row i and it showed a variant
ShownAt(n, i) ==
    /\ n \in DOMAIN calls
    /\ calls[n].op = "viewLanguageVariant"
    /\ calls[n].idx = i
    /\ calls[n].st = "ok"

\* the upsert is the next call to be issued
UpsertIsNext == pc = "upsertLanguageVariant"

C31_UpsertOnlyOfDraft ==
    UpsertIsNext =>
        LET row == source.items[idx]
            key == <<row.codename, row.language>>
            n == Len(calls)
            last == calls[n]
        IN /\ key \in DOMAIN tVariants =>
                  /\ ~PublishedInTarget(tVariants[key].step)
                  /\ ~ArchivedInTarget(tVariants[key].step)
           /\ last.idx = idx
           /\ last.key = row.codename
           /\ last.lang = row.language
           /\ CASE last.op = "viewLanguageVariant" ->
                       \/ last.st = "notFound" /\ key \notin DOMAIN tVariants
                       \/ /\ last.st = "ok"
                          /\ ~PublishedInTarget(last.res.step)
                          /\ ~ArchivedInTarget(last.res.step)
                [] last.op = "createNewVersion" ->
                       /\ last.st = "ok"
                       /\ ShownAt(n - 1, idx)
                       /\ PublishedInTarget(calls[n - 1].res.step)
                [] last.op = "changeWorkflowStep" ->
                       /\ last.st = "ok"
                       /\ ShownAt(n - 1, idx)
                       /\ ArchivedInTarget(calls[n - 1].res.step)
                       /\ last.data = TargetWorkflow(tWorkflows, calls[n - 1].res.wf).steps[1].codename
                [] OTHER -> FALSE

\* the upsert is about to be issued for a variant that was archived and has
\* been moved to the first step of the second workflow of the target
C31_Witness ==
    /\ UpsertIsNext
    /\ calls[Len(calls)].op = "changeWorkflowStep"
    /\ Len(tWorkflows) = 2
    /\ calls[Len(calls)].data = tWorkflows[2].steps[1].codename

\* the upsert is about to be issued for a variant that was published
C31_WitnessPublished ==
    /\ UpsertIsNext
    /\ calls[Len(calls)].op = "createNewVersion"

(***************************************************************************)
(* C32.  In one call of replaceIdsInRichText each marker is translated at  *)
(* most once: the value of a marker in the output is its original value,   *)
(* the placeholder, or the import id the table has for the original value, *)
(* and never the translation of a value that was already translated.       *)
(***************************************************************************)
\* the values one translation of the marker m of the payload may leave
OnceTranslated(m) ==
    {payload[m].val, Placeholder,
     tryFindNewId(payload[m].val, table), tryFindNewIdForCodename(payload[m].val, table)}

C32_TranslatedAtMostOnce ==
    applied = "text once" =>
        /\ Len(rewritten) = Len(payload)
        /\ \A m \in DOMAIN payload : rewritten[m].val \in OnceTranslated(m)

====
